---- MODULE Spec2Model ----
(***************************************************************************)
(* LegiVellum: the queue/lease coordinator (AsyncGate), its receipt        *)
(* emission client with the overflow queue and drain worker, and the       *)
(* ledger's Append (MemoryGate).                                           *)
(*                                                                         *)
(* The task table is a PostgreSQL table used at READ COMMITTED: a plain    *)
(* SELECT reads committed rows and takes no lock, SELECT ... FOR UPDATE    *)
(* SKIP LOCKED and UPDATE take the row lock until the transaction ends,    *)
(* and an UPDATE evaluates its WHERE clause on the committed row once it   *)
(* has the lock.  Each request handler is split at its database round      *)
(* trips, so that handlers interleave the way the service runs them.       *)
(***************************************************************************)
EXTENDS Integers, Sequences, FiniteSets, TLC

\* ------------------------------------------------------------------ bounds
MaxTasks == 2          \* rows the task table may hold
RaceTasks == 1         \* rows of the table in the runs with reclaim passes or ledger outages
MaxLeases == 2         \* lease ids generate_lease_id may hand out
MaxReceipts == 4       \* receipt ids ulid.new may hand out
MaxTicks == 1          \* clock ticks
TickSeconds == 1200    \* seconds per clock tick
QueueCap == 2          \* stands for deque(maxlen=1000)
DrainMaxRetries == 2   \* stands for the drain's limit of 10 retries
DrainBatch == 1        \* stands for the drain's 10 items per cycle
MaxChain == 3          \* receipt ids a client chooses from
MaxArchive == 2        \* receipt ids of the archiving clients
MaxLedger == 3         \* rows the receipts table may hold
MaxPlans == 1          \* rows of the plans table

\* ------------------------------------------------------- program constants
LEASE_DURATION_SECONDS == 900
max_attempts_default == 3
max_retries == 3

ApiKeys == {"dev-key-alice", "test-key"}   \* credentials requests arrive with
Workers == {"w1", "w2"}                    \* worker_id values
Sessions == {"s1", "s2"}                   \* concurrent request handlers
Summaries == {"demo", "TBD"}               \* task_summary values
Priorities == {0}                          \* priority values
Recipients == {"worker.alice"}             \* recipient_ai values
Kinds == {"code", "data"}                  \* task_type values
DefaultKind == "code"
KindPriorities == {0, 1}                   \* priority values where kinds compete

NULL == -1
NoWorker == "NULL"
NoTenant == "unauthorized"
NoLock == "none"
Reaper == "reaper"

VARIABLES
    tasks,          \* the tasks table: task_id (1..Len) -> committed row
    lock,           \* row locks: task_id -> holder or NoLock
    now,            \* the clock, in seconds
    sess,           \* handlers and the reaper: process -> its position and locals
    reaper_error,   \* lease_expiry_worker logged "Error in lease expiry worker"
    metrics,        \* ENABLE_METRICS
    next_lease,     \* next fresh lease id
    next_rid,       \* next fresh receipt id
    ledger,         \* the receipts table, in stored_at order
    ledger_up,      \* whether the ledger answers
    retry_queue,    \* receipt_emitter._retry_queue
    error_log,      \* receipt ids the drain gave up on (logged at error level)
    plans,          \* the planner's plans table: plan_id (1..Len) -> committed row
    resp            \* the response the last step returned to its caller, if any

vars == <<tasks, lock, now, sess, reaper_error, metrics, next_lease, next_rid,
          ledger, ledger_up, retry_queue, error_log, plans, resp>>

TaskIds == 1..Len(tasks)

\* ------------------------------------------------------------------ ledger

\* auth.API_KEY_TENANT_MAP / get_tenant_from_api_key
get_tenant_from_api_key(api_key) ==
    CASE api_key = "dev-key-pstryder" -> "pstryder"
      [] api_key = "dev-key-alice" -> "alice"
      [] api_key = "dev-key-bob" -> "bob"
      [] api_key = "test-key" -> "test"
      [] OTHER -> NoTenant

\* The phase rules without the routing rule of the escalate phase.
validate_phase_constraints_unrouted(rc) ==
    /\ CASE rc.phase = "accepted" ->
            /\ rc.status = "NA"
            /\ ~rc.completed_at
            /\ rc.task_summary # "TBD"
            /\ rc.outcome_kind = "NA"
            /\ rc.artifact_pointer = "NA"
            /\ rc.artifact_location = "NA"
            /\ rc.artifact_mime = "NA"
            /\ rc.escalation_class = "NA"
            /\ rc.escalation_to = "NA"
            /\ ~rc.retry_requested
         [] rc.phase = "complete" ->
            /\ rc.status \in {"success", "failure", "canceled"}
            /\ rc.completed_at
            /\ rc.outcome_kind \in {"none", "response_text", "artifact_pointer", "mixed"}
            /\ rc.escalation_class = "NA"
            /\ rc.outcome_kind \in {"artifact_pointer", "mixed"} =>
                  /\ rc.artifact_pointer # "NA"
                  /\ rc.artifact_location # "NA"
                  /\ rc.artifact_mime # "NA"
         [] rc.phase = "escalate" ->
            /\ rc.status = "NA"
            /\ rc.escalation_class \in {"owner", "capability", "trust", "policy", "scope", "other"}
            /\ rc.escalation_reason \notin {"NA", "TBD"}
            /\ rc.escalation_to # "NA"
         [] OTHER -> FALSE
    /\ rc.retry_requested => rc.attempt >= 1

\* models.Receipt.validate_phase_constraints (with validation.validate_receipt,
\* whose checks it subsumes): TRUE when the receipt passes.  "NA" is the
\* sentinel of an unset string slot.
validate_phase_constraints(rc) ==
    /\ CASE rc.phase = "accepted" ->
            /\ rc.status = "NA"
            /\ ~rc.completed_at
            /\ rc.task_summary # "TBD"
            /\ rc.outcome_kind = "NA"
            /\ rc.artifact_pointer = "NA"
            /\ rc.artifact_location = "NA"
            /\ rc.artifact_mime = "NA"
            /\ rc.escalation_class = "NA"
            /\ rc.escalation_to = "NA"
            /\ ~rc.retry_requested
         [] rc.phase = "complete" ->
            /\ rc.status \in {"success", "failure", "canceled"}
            /\ rc.completed_at
            /\ rc.outcome_kind \in {"none", "response_text", "artifact_pointer", "mixed"}
            /\ rc.escalation_class = "NA"
            /\ rc.outcome_kind \in {"artifact_pointer", "mixed"} =>
                  /\ rc.artifact_pointer # "NA"
                  /\ rc.artifact_location # "NA"
                  /\ rc.artifact_mime # "NA"
         [] rc.phase = "escalate" ->
            /\ rc.status = "NA"
            /\ rc.escalation_class \in {"owner", "capability", "trust", "policy", "scope", "other"}
            /\ rc.escalation_reason \notin {"NA", "TBD"}
            /\ rc.escalation_to # "NA"
            /\ rc.recipient_ai = rc.escalation_to
         [] OTHER -> FALSE
    /\ rc.retry_requested => rc.attempt >= 1

\* memorygate create_receipt: the HTTP status it answers to a POST /receipts.
create_receipt_status(led, api_key, rc) ==
    LET tenant == get_tenant_from_api_key(api_key) IN
    IF tenant = NoTenant THEN 401
    ELSE IF ~validate_phase_constraints(rc) THEN 400
    ELSE IF \E i \in 1..Len(led) :
                led[i].tenant_id = tenant /\ led[i].receipt_id = rc.receipt_id
         THEN 409
    ELSE 201

\* create_receipt as an upsert: a re-sent id replaces the stored row.
create_receipt_upsert(led, api_key, rc) ==
    LET tenant == get_tenant_from_api_key(api_key)
        row == [rc EXCEPT !.tenant_id = tenant, !.archived_at = FALSE]
    IN  IF create_receipt_status(led, api_key, rc) = 201 THEN Append(led, row)
        ELSE IF create_receipt_status(led, api_key, rc) = 409
        THEN [i \in 1..Len(led) |->
                IF led[i].tenant_id = tenant /\ led[i].receipt_id = rc.receipt_id
                THEN row ELSE led[i]]
        ELSE led

\* memorygate create_receipt: the receipts table after the POST.
create_receipt_store(led, api_key, rc) ==
    IF create_receipt_status(led, api_key, rc) = 201
    THEN Append(led, [rc EXCEPT !.tenant_id = get_tenant_from_api_key(api_key),
                                !.archived_at = FALSE])
    ELSE led

\* --------------------------------------------------------- emission client

\* client.post(...) + raise_for_status as the emitter sees it: the status, or
\* 0 for a connect error / timeout.
post_receipt(led, up, tenant, rc) ==
    IF up THEN create_receipt_status(led, "dev-key-" \o tenant, rc) ELSE 0

\* _queue_for_retry on a deque without maxlen.
queue_for_retry_unbounded(q, tenant, rc) ==
    Append(q, [tenant_id |-> tenant, receipt_data |-> rc, retry_count |-> 0])

\* _queue_for_retry on a queue that refuses a push when it is full.
queue_for_retry_drop_newest(q, tenant, rc) ==
    LET item == [tenant_id |-> tenant, receipt_data |-> rc, retry_count |-> 0]
    IN  IF Len(q) >= QueueCap THEN q ELSE Append(q, item)

\* _queue_for_retry: append to deque(maxlen): a full deque drops its oldest.
queue_for_retry(q, tenant, rc) ==
    LET item == [tenant_id |-> tenant, receipt_data |-> rc, retry_count |-> 0]
    IN  IF Len(q) >= QueueCap THEN Append(Tail(q), item) ELSE Append(q, item)

\* What happens to one POST: "up" carries the request and the answer, "down"
\* fails to connect, "lost" carries the request and times out before the
\* answer arrives, "error" reaches a ledger that answers 500 (database_error)
\* and stores nothing.
Net(up) == IF up THEN "up" ELSE "down"

Nets(up) == [i \in 1..max_retries |-> Net(up)]

NetModes == {"up", "down", "lost", "error"}

\* One POST /receipts over the network: the status the client sees (0 for a
\* connect error or timeout) and the receipts table after it.
post_outcome(led, net, tenant, rc) ==
    [code |-> IF net = "up" THEN post_receipt(led, TRUE, tenant, rc)
              ELSE IF net = "error" THEN 500 ELSE 0,
     ledger |-> IF net \in {"down", "error"} THEN led
                ELSE create_receipt_store(led, "dev-key-" \o tenant, rc)]

\* The foreground loop queueing a receipt the ledger answered 400 or 422.
RECURSIVE emit_loop_queue_invalid(_, _, _, _, _, _)
emit_loop_queue_invalid(led, q, nets, tenant, rc, k) ==
    IF k >= max_retries
    THEN [ok |-> FALSE, ledger |-> led, queue |-> queue_for_retry(q, tenant, rc),
          posts |-> k]
    ELSE LET o == post_outcome(led, nets[k + 1], tenant, rc) IN
         IF o.code \in {201, 409}
         THEN [ok |-> TRUE, ledger |-> o.ledger, queue |-> q, posts |-> k + 1]
         ELSE IF o.code \in {400, 422}
         THEN [ok |-> FALSE, ledger |-> o.ledger,
               queue |-> queue_for_retry(q, tenant, rc), posts |-> k + 1]
         ELSE emit_loop_queue_invalid(o.ledger, q, nets, tenant, rc, k + 1)

\* emit_receipt_with_retry: the foreground loop from attempt k on, attempt i
\* going over nets[i].  The result: whether it returned the receipt id (ok) or
\* raised ReceiptEmissionError, the ledger and the queue after it, and the
\* number of POSTs made.
RECURSIVE emit_loop(_, _, _, _, _, _)
emit_loop(led, q, nets, tenant, rc, k) ==
    IF k >= max_retries
    THEN [ok |-> FALSE, ledger |-> led, queue |-> queue_for_retry(q, tenant, rc),
          posts |-> k]
    ELSE LET o == post_outcome(led, nets[k + 1], tenant, rc) IN
         IF o.code \in {201, 409}
         THEN [ok |-> TRUE, ledger |-> o.ledger, queue |-> q, posts |-> k + 1]
         ELSE IF o.code \in {400, 422}
         THEN [ok |-> FALSE, ledger |-> o.ledger, queue |-> q, posts |-> k + 1]
         ELSE emit_loop(o.ledger, q, nets, tenant, rc, k + 1)

emit_receipt_with_retry(led, q, up, tenant, rc) ==
    emit_loop(led, q, Nets(up), tenant, rc, 0)

\* ------------------------------------------------------------- coordinator

Procs == Sessions \cup {Reaper}

NoResp ==
    [proc |-> "none", op |-> "none", code |-> 0, task_id |-> NULL, lease_id |-> NULL,
     receipt_id |-> NULL, rows |-> <<>>]

Resp(p, op, code, task_id, lease_id) ==
    [NoResp EXCEPT !.proc = p, !.op = op, !.code = code, !.task_id = task_id,
                   !.lease_id = lease_id]

\* A handler between requests (the reaper: asleep).
Idle ==
    [pc |-> "idle", tenant_id |-> NoTenant, worker_id |-> NoWorker, lease_id |-> NULL,
     retryable |-> FALSE, rows |-> <<>>, i |-> 0]

\* What a handler keeps of a row it read with SELECT *.
RowRead(t) ==
    [task_id |-> t, tenant_id |-> tasks[t].tenant_id, attempt |-> tasks[t].attempt,
     max_attempts |-> tasks[t].max_attempts, task_summary |-> tasks[t].task_summary,
     recipient_ai |-> tasks[t].recipient_ai]

\* An UPDATE must wait while another transaction holds the lock of a row it changes.
CanLock(p, ts) == \A t \in ts : lock[t] \in {NoLock, p}

\* _emit_receipt: the accepted receipt of a created task.
accepted_receipt(rid, row) ==
    [receipt_id |-> rid, tenant_id |-> NoTenant, task_id |-> row.task_id,
     caused_by_receipt_id |-> NULL, artifact_pointer |-> "NA",
     artifact_location |-> "NA", artifact_mime |-> "NA",
     escalation_reason |-> "NA", retry_requested |-> FALSE, archived_at |-> FALSE,
     phase |-> "accepted", status |-> "NA", recipient_ai |-> row.recipient_ai,
     task_summary |-> row.task_summary, outcome_kind |-> "NA",
     escalation_class |-> "NA", escalation_to |-> "NA", completed_at |-> FALSE,
     attempt |-> 0]

\* _emit_complete_receipt
complete_receipt(rid, row, status, outcome_kind) ==
    [receipt_id |-> rid, tenant_id |-> NoTenant, task_id |-> row.task_id,
     caused_by_receipt_id |-> NULL, artifact_pointer |-> "NA",
     artifact_location |-> "NA", artifact_mime |-> "NA",
     escalation_reason |-> "NA", retry_requested |-> FALSE, archived_at |-> FALSE,
     phase |-> "complete", status |-> status, recipient_ai |-> row.recipient_ai,
     task_summary |-> row.task_summary, outcome_kind |-> outcome_kind,
     escalation_class |-> "NA", escalation_to |-> "NA", completed_at |-> TRUE,
     attempt |-> row.attempt]

\* _emit_escalate_receipt addressing the receipt to the task's own recipient.
escalate_receipt_to_task_recipient(rid, row) ==
    [receipt_id |-> rid, tenant_id |-> NoTenant, task_id |-> row.task_id,
     caused_by_receipt_id |-> NULL, artifact_pointer |-> "NA",
     artifact_location |-> "NA", artifact_mime |-> "NA",
     escalation_reason |-> "exhausted", retry_requested |-> FALSE, archived_at |-> FALSE,
     phase |-> "escalate", status |-> "NA", recipient_ai |-> row.recipient_ai,
     task_summary |-> row.task_summary, outcome_kind |-> "NA",
     escalation_class |-> "policy", escalation_to |-> "delegate", completed_at |-> FALSE,
     attempt |-> row.attempt]

\* _emit_escalate_receipt
escalate_receipt(rid, row) ==
    [receipt_id |-> rid, tenant_id |-> NoTenant, task_id |-> row.task_id,
     caused_by_receipt_id |-> NULL, artifact_pointer |-> "NA",
     artifact_location |-> "NA", artifact_mime |-> "NA",
     escalation_reason |-> "exhausted", retry_requested |-> FALSE, archived_at |-> FALSE,
     phase |-> "escalate", status |-> "NA", recipient_ai |-> "delegate",
     task_summary |-> row.task_summary, outcome_kind |-> "NA",
     escalation_class |-> "policy", escalation_to |-> "delegate", completed_at |-> FALSE,
     attempt |-> row.attempt]

\* create_task, to its commit: INSERT the row.
CreateTaskOfType(s, api_key, task_type, summary, priority, recipient) ==
    LET tenant == get_tenant_from_api_key(api_key)
        row == [tenant_id |-> tenant, task_type |-> task_type,
                task_summary |-> summary, recipient_ai |-> recipient,
                status |-> "queued", priority |-> priority, attempt |-> 0,
                max_attempts |-> max_attempts_default, created_at |-> now,
                lease_id |-> NULL, worker_id |-> NoWorker, lease_expires_at |-> NULL,
                completed_at |-> FALSE]
        t == Len(tasks) + 1
    IN  /\ sess[s].pc = "idle"
        /\ tenant # NoTenant
        /\ Len(tasks) < MaxTasks
        /\ tasks' = Append(tasks, row)
        /\ lock' = Append(lock, NoLock)
        /\ sess' = [sess EXCEPT ![s] =
               [Idle EXCEPT !.pc = "create_emit", !.tenant_id = tenant,
                    !.rows = <<[task_id |-> t, tenant_id |-> tenant, attempt |-> 0,
                                max_attempts |-> max_attempts_default,
                                task_summary |-> summary, recipient_ai |-> recipient]>>]]
        /\ resp' = NoResp
        /\ UNCHANGED <<now, reaper_error, metrics, next_lease, next_rid, ledger,
                       ledger_up, retry_queue, error_log, plans>>

\* create_task for a request of the one task_type the clients of most runs use.
CreateTask(s, api_key, summary, priority, recipient) ==
    CreateTaskOfType(s, api_key, DefaultKind, summary, priority, recipient)

\* create_task, after its commit: emit the accepted receipt, attempt i going
\* over nets[i]; 201, or 503 when the emitter raised ReceiptEmissionError.
CreateEmitOver(s, nets) ==
    LET row == sess[s].rows[1]
        e == emit_loop(ledger, retry_queue, nets, sess[s].tenant_id,
                       accepted_receipt(next_rid, row), 0)
    IN  /\ sess[s].pc = "create_emit"
        /\ next_rid <= MaxReceipts
        /\ next_rid' = next_rid + 1
        /\ ledger' = e.ledger
        /\ retry_queue' = e.queue
        /\ sess' = [sess EXCEPT ![s] = Idle]
        /\ resp' = Resp(s, "create", IF e.ok THEN 201 ELSE 503, row.task_id, NULL)
        /\ UNCHANGED <<tasks, lock, now, reaper_error, metrics, next_lease, ledger_up,
                       error_log, plans>>

CreateEmit(s) == CreateEmitOver(s, Nets(ledger_up))

\* get_task (GET /tasks/{task_id}): the caller's row with that id, or 404.
GetTask(s, api_key, task_id) ==
    LET tenant == get_tenant_from_api_key(api_key)
        found == {t \in TaskIds : tasks[t].tenant_id = tenant /\ t = task_id}
    IN  /\ sess[s].pc = "idle"
        /\ tenant # NoTenant
        /\ resp' = IF found = {} THEN Resp(s, "get", 404, NULL, NULL)
                   ELSE [Resp(s, "get", 200, task_id, NULL)
                           EXCEPT !.rows = <<tasks[task_id]>>]
        /\ UNCHANGED <<tasks, lock, now, sess, reaper_error, metrics, next_lease,
                       next_rid, ledger, ledger_up, retry_queue, error_log, plans>>

\* lease_task's query without FOR UPDATE SKIP LOCKED: rows another transaction
\* has locked are candidates too.
LeaseCandidatesNoSkipLocked(p, tenant) ==
    LET avail == {t \in TaskIds : /\ tasks[t].tenant_id = tenant
                                  /\ tasks[t].status = "queued"}
    IN  {t \in avail : \A u \in avail :
            \/ tasks[t].priority > tasks[u].priority
            \/ /\ tasks[t].priority = tasks[u].priority
               /\ tasks[t].created_at <= tasks[u].created_at}

\* lease_task's query without its status = 'queued' condition.
LeaseCandidatesAnyStatus(p, tenant) ==
    LET avail == {t \in TaskIds : /\ tasks[t].tenant_id = tenant
                                  /\ lock[t] \in {NoLock, p}}
    IN  {t \in avail : \A u \in avail :
            \/ tasks[t].priority > tasks[u].priority
            \/ /\ tasks[t].priority = tasks[u].priority
               /\ tasks[t].created_at <= tasks[u].created_at}

\* lease_task's query: the tenant's queued rows no other transaction has locked
\* (FOR UPDATE SKIP LOCKED), first in ORDER BY priority DESC, created_at ASC;
\* rows equal in both keys come in no stated order.
LeaseCandidates(p, tenant) ==
    LET avail == {t \in TaskIds : /\ tasks[t].tenant_id = tenant
                                  /\ tasks[t].status = "queued"
                                  /\ lock[t] \in {NoLock, p}}
    IN  {t \in avail : \A u \in avail :
            \/ tasks[t].priority > tasks[u].priority
            \/ /\ tasks[t].priority = tasks[u].priority
               /\ tasks[t].created_at <= tasks[u].created_at}

\* lease_task, the SELECT: 204 when no row is available, else the row is locked.
LeaseSelect(s, api_key, worker) ==
    LET tenant == get_tenant_from_api_key(api_key)
        cands == LeaseCandidates(s, tenant)
    IN  /\ sess[s].pc = "idle"
        /\ tenant # NoTenant
        /\ next_lease <= MaxLeases
        /\ IF cands = {}
           THEN /\ sess' = sess
                /\ lock' = lock
                /\ resp' = Resp(s, "lease", 204, NULL, NULL)
           ELSE \E t \in cands :
                /\ lock' = [lock EXCEPT ![t] = s]
                /\ sess' = [sess EXCEPT ![s] =
                       [Idle EXCEPT !.pc = "lease_update", !.tenant_id = tenant,
                            !.worker_id = worker, !.rows = <<RowRead(t)>>]]
                /\ resp' = NoResp
        /\ UNCHANGED <<tasks, now, reaper_error, metrics, next_lease, next_rid, ledger,
                       ledger_up, retry_queue, error_log, plans>>

\* lease_task's first query with the task_type condition left out.
LeasePreferredCandidatesAnyKind(p, tenant, kinds) ==
    LET avail == {t \in TaskIds : /\ tasks[t].tenant_id = tenant
                                  /\ tasks[t].status = "queued"
                                  /\ lock[t] \in {NoLock, p}}
    IN  {t \in avail : \A u \in avail :
            \/ tasks[t].priority > tasks[u].priority
            \/ /\ tasks[t].priority = tasks[u].priority
               /\ tasks[t].created_at <= tasks[u].created_at}

\* lease_task's first query: as the other, with task_type = ANY(:preferred_kinds).
LeasePreferredCandidates(p, tenant, kinds) ==
    LET avail == {t \in TaskIds : /\ tasks[t].tenant_id = tenant
                                  /\ tasks[t].status = "queued"
                                  /\ tasks[t].task_type \in kinds
                                  /\ lock[t] \in {NoLock, p}}
    IN  {t \in avail : \A u \in avail :
            \/ tasks[t].priority > tasks[u].priority
            \/ /\ tasks[t].priority = tasks[u].priority
               /\ tasks[t].created_at <= tasks[u].created_at}

\* lease_task for a request with preferred_kinds, the first SELECT: its row is
\* locked, or the handler goes on to the second SELECT.
LeasePreferSelect(s, api_key, worker, kinds) ==
    LET tenant == get_tenant_from_api_key(api_key)
        cands == LeasePreferredCandidates(s, tenant, kinds)
        asked == [Idle EXCEPT !.tenant_id = tenant, !.worker_id = worker]
                    @@ [kinds |-> kinds]
    IN  /\ sess[s].pc = "idle"
        /\ tenant # NoTenant
        /\ kinds # {}
        /\ next_lease <= MaxLeases
        /\ IF cands = {}
           THEN /\ sess' = [sess EXCEPT ![s] = [asked EXCEPT !.pc = "lease_fallback"]]
                /\ lock' = lock
           ELSE \E t \in cands :
                /\ lock' = [lock EXCEPT ![t] = s]
                /\ sess' = [sess EXCEPT ![s] =
                       [asked EXCEPT !.pc = "lease_update", !.rows = <<RowRead(t)>>]]
        /\ resp' = NoResp
        /\ UNCHANGED <<tasks, now, reaper_error, metrics, next_lease, next_rid, ledger,
                       ledger_up, retry_queue, error_log, plans>>

\* lease_task for a request with preferred_kinds, the second SELECT, after the
\* first returned no row: 204 when no row is available, else the row is locked.
LeaseFallbackSelect(s) ==
    LET cands == LeaseCandidates(s, sess[s].tenant_id) IN
    /\ sess[s].pc = "lease_fallback"
    /\ IF cands = {}
       THEN /\ sess' = [sess EXCEPT ![s] = Idle]
            /\ lock' = lock
            /\ resp' = Resp(s, "lease", 204, NULL, NULL)
       ELSE \E t \in cands :
            /\ lock' = [lock EXCEPT ![t] = s]
            /\ sess' = [sess EXCEPT ![s] =
                   [@ EXCEPT !.pc = "lease_update", !.rows = <<RowRead(t)>>]]
            /\ resp' = NoResp
    /\ UNCHANGED <<tasks, now, reaper_error, metrics, next_lease, next_rid, ledger,
                   ledger_up, retry_queue, error_log, plans>>

\* lease_task, the UPDATE and the commit.
LeaseUpdate(s) ==
    LET t == sess[s].rows[1].task_id IN
    /\ sess[s].pc = "lease_update"
    /\ tasks' = [tasks EXCEPT ![t] =
           IF tasks[t].tenant_id = sess[s].tenant_id
           THEN [@ EXCEPT !.status = "leased", !.lease_id = next_lease,
                          !.worker_id = sess[s].worker_id,
                          !.lease_expires_at = now + LEASE_DURATION_SECONDS]
           ELSE @]
    /\ lock' = [lock EXCEPT ![t] = NoLock]
    /\ next_lease' = next_lease + 1
    /\ sess' = [sess EXCEPT ![s] = Idle]
    /\ resp' = Resp(s, "lease", 200, t, next_lease)
    /\ UNCHANGED <<now, reaper_error, metrics, next_rid, ledger, ledger_up,
                   retry_queue, error_log, plans>>

\* The lookup without its worker_id condition.
LeaseHeldAnyWorker(tenant, lease_id, worker) ==
    {t \in TaskIds : /\ tasks[t].tenant_id = tenant
                     /\ tasks[t].lease_id = lease_id
                     /\ tasks[t].status = "leased"}

\* The lookup with a condition that the lease has not run out.
LeaseHeldUnexpired(tenant, lease_id, worker) ==
    {t \in TaskIds : /\ tasks[t].tenant_id = tenant
                     /\ tasks[t].lease_id = lease_id
                     /\ tasks[t].worker_id = worker
                     /\ tasks[t].status = "leased"
                     /\ tasks[t].lease_expires_at >= now}

\* The lookup heartbeat, complete_task and fail_task start with.
LeaseHeld(tenant, lease_id, worker) ==
    {t \in TaskIds : /\ tasks[t].tenant_id = tenant
                     /\ tasks[t].lease_id = lease_id
                     /\ tasks[t].worker_id = worker
                     /\ tasks[t].status = "leased"}

\* The rows of UPDATE ... WHERE lease_id = :lease_id AND tenant_id = :tenant_id.
LeaseRows(tenant, lease_id) ==
    {t \in TaskIds : tasks[t].tenant_id = tenant /\ tasks[t].lease_id = lease_id}

\* The SELECT of heartbeat / complete_task / fail_task: 404 when no row matches.
HeldSelect(s, op, api_key, lease_id, worker, retryable) ==
    LET tenant == get_tenant_from_api_key(api_key)
        held == LeaseHeld(tenant, lease_id, worker)
    IN  /\ sess[s].pc = "idle"
        /\ tenant # NoTenant
        /\ IF held = {}
           THEN /\ sess' = sess
                /\ resp' = Resp(s, op, 404, NULL, lease_id)
           ELSE \E t \in held :
                /\ sess' = [sess EXCEPT ![s] =
                    [Idle EXCEPT !.pc = op \o "_update", !.tenant_id = tenant,
                         !.worker_id = worker, !.lease_id = lease_id,
                         !.retryable = retryable, !.rows = <<RowRead(t)>>]]
                /\ resp' = NoResp
        /\ UNCHANGED <<tasks, lock, now, reaper_error, metrics, next_lease, next_rid,
                       ledger, ledger_up, retry_queue, error_log, plans>>

HeartbeatSelect(s, api_key, lease_id, worker) ==
    HeldSelect(s, "heartbeat", api_key, lease_id, worker, FALSE)

\* heartbeat, the UPDATE and the commit.
HeartbeatUpdate(s) ==
    LET rows == LeaseRows(sess[s].tenant_id, sess[s].lease_id) IN
    /\ sess[s].pc = "heartbeat_update"
    /\ CanLock(s, rows)
    /\ tasks' = [t \in TaskIds |->
           IF t \in rows
           THEN [tasks[t] EXCEPT !.lease_expires_at = now + LEASE_DURATION_SECONDS]
           ELSE tasks[t]]
    /\ sess' = [sess EXCEPT ![s] = Idle]
    /\ resp' = Resp(s, "heartbeat", 200, sess[s].rows[1].task_id, sess[s].lease_id)
    /\ UNCHANGED <<lock, now, reaper_error, metrics, next_lease, next_rid, ledger,
                   ledger_up, retry_queue, error_log, plans>>

CompleteSelect(s, api_key, lease_id, worker) ==
    HeldSelect(s, "complete", api_key, lease_id, worker, FALSE)

\* complete_task, the UPDATE and the commit.
CompleteUpdate(s) ==
    LET rows == LeaseRows(sess[s].tenant_id, sess[s].lease_id) IN
    /\ sess[s].pc = "complete_update"
    /\ CanLock(s, rows)
    /\ tasks' = [t \in TaskIds |->
           IF t \in rows
           THEN [tasks[t] EXCEPT !.status = "completed", !.completed_at = TRUE]
           ELSE tasks[t]]
    /\ sess' = [sess EXCEPT ![s].pc = "complete_emit"]
    /\ resp' = NoResp
    /\ UNCHANGED <<lock, now, reaper_error, metrics, next_lease, next_rid, ledger,
                   ledger_up, retry_queue, error_log, plans>>

\* complete_task, after its commit: emit the complete receipt; nothing catches
\* the emitter's ReceiptEmissionError (500).
CompleteEmit(s, status, outcome_kind) ==
    LET row == sess[s].rows[1]
        e == emit_receipt_with_retry(ledger, retry_queue, ledger_up, sess[s].tenant_id,
                                     complete_receipt(next_rid, row, status, outcome_kind))
    IN  /\ sess[s].pc = "complete_emit"
        /\ next_rid <= MaxReceipts
        /\ next_rid' = next_rid + 1
        /\ ledger' = e.ledger
        /\ retry_queue' = e.queue
        /\ sess' = [sess EXCEPT ![s] = Idle]
        /\ resp' = Resp(s, "complete", IF e.ok THEN 200 ELSE 500, row.task_id,
                        sess[s].lease_id)
        /\ UNCHANGED <<tasks, lock, now, reaper_error, metrics, next_lease, ledger_up,
                       error_log, plans>>

FailSelect(s, api_key, lease_id, worker, retryable) ==
    HeldSelect(s, "fail", api_key, lease_id, worker, retryable)

\* can_retry with attempt + 1 <= max_attempts.
can_retry_inclusive(retryable, row) == retryable /\ (row.attempt + 1) <= row.max_attempts

\* fail_task's next_attempt in the answer of a scheduled retry.
fail_next_attempt(row) == row.attempt + 1

\* fail_task's can_retry, from the row as it was read.
can_retry(retryable, row) == retryable /\ (row.attempt + 1) < row.max_attempts

\* fail_task with can_retry: the requeueing UPDATE and the commit.
FailRetry(s) ==
    LET rows == LeaseRows(sess[s].tenant_id, sess[s].lease_id)
        row == sess[s].rows[1]
    IN  /\ sess[s].pc = "fail_update"
        /\ can_retry(sess[s].retryable, row)
        /\ CanLock(s, rows)
        /\ tasks' = [t \in TaskIds |->
               IF t \in rows
               THEN [tasks[t] EXCEPT !.status = "queued", !.lease_id = NULL,
                        !.worker_id = NoWorker, !.lease_expires_at = NULL,
                        !.attempt = @ + 1]
               ELSE tasks[t]]
        /\ sess' = [sess EXCEPT ![s] = Idle]
        /\ resp' = Resp(s, "fail_retry", 200, row.task_id, sess[s].lease_id)
        /\ UNCHANGED <<lock, now, reaper_error, metrics, next_lease, next_rid, ledger,
                       ledger_up, retry_queue, error_log, plans>>

\* fail_task without can_retry: the UPDATE to failed, the escalate receipt, the
\* commit.  A ReceiptEmissionError leaves the handler before its commit, and
\* the session rolls the UPDATE back (500).
FailFinal(s) ==
    LET rows == LeaseRows(sess[s].tenant_id, sess[s].lease_id)
        row == sess[s].rows[1]
        e == emit_receipt_with_retry(ledger, retry_queue, ledger_up, sess[s].tenant_id,
                                     escalate_receipt(next_rid, row))
    IN  /\ sess[s].pc = "fail_update"
        /\ ~can_retry(sess[s].retryable, row)
        /\ CanLock(s, rows)
        /\ next_rid <= MaxReceipts
        /\ next_rid' = next_rid + 1
        /\ ledger' = e.ledger
        /\ retry_queue' = e.queue
        /\ tasks' = [t \in TaskIds |->
               IF t \in rows /\ e.ok
               THEN [tasks[t] EXCEPT !.status = "failed", !.completed_at = TRUE]
               ELSE tasks[t]]
        /\ sess' = [sess EXCEPT ![s] = Idle]
        /\ resp' = Resp(s, "fail_final", IF e.ok THEN 200 ELSE 500, row.task_id,
                        sess[s].lease_id)
        /\ UNCHANGED <<lock, now, reaper_error, metrics, next_lease, ledger_up,
                       error_log, plans>>

\* The reclaim passes' query: leased rows whose lease_expires_at is before the
\* clock read at the start of the pass; the admin endpoint's adds its tenant.
ExpiredRows(tenants) ==
    LET Expired(r) == /\ tasks[r.task_id].tenant_id \in tenants
                      /\ tasks[r.task_id].status = "leased"
                      /\ tasks[r.task_id].lease_expires_at < now
    IN  SelectSeq([t \in TaskIds |-> RowRead(t)], Expired)

\* The reclaim passes' can_retry, from the row as it was read.
reclaim_can_retry(row) == row.attempt + 1 < row.max_attempts

\* expire_leases (GET /admin/expire-leases), the SELECT.
AdminSelect(s, api_key) ==
    LET tenant == get_tenant_from_api_key(api_key)
        rows == ExpiredRows({tenant})
    IN  /\ sess[s].pc = "idle"
        /\ tenant # NoTenant
        /\ IF rows = <<>>
           THEN /\ sess' = sess
                /\ resp' = Resp(s, "reclaim", 200, NULL, NULL)
           ELSE /\ sess' = [sess EXCEPT ![s] =
                       [Idle EXCEPT !.pc = "reclaim", !.tenant_id = tenant,
                            !.rows = rows, !.i = 1]]
                /\ resp' = NoResp
        /\ UNCHANGED <<tasks, lock, now, reaper_error, metrics, next_lease, next_rid,
                       ledger, ledger_up, retry_queue, error_log, plans>>

\* lease_expiry_worker, one pass to its SELECT.  get_session is imported only
\* under observability_enabled(): without it the pass ends in a NameError that
\* the worker's except Exception logs.
ReaperSelect ==
    LET rows == ExpiredRows({tasks[t].tenant_id : t \in TaskIds}) IN
    /\ sess[Reaper].pc = "idle"
    /\ metrics
    /\ rows # <<>>
    /\ sess' = [sess EXCEPT ![Reaper] =
           [Idle EXCEPT !.pc = "reclaim", !.rows = rows, !.i = 1]]
    /\ resp' = NoResp
    /\ UNCHANGED <<tasks, lock, now, reaper_error, metrics, next_lease, next_rid,
                   ledger, ledger_up, retry_queue, error_log, plans>>

ReaperNameError ==
    /\ sess[Reaper].pc = "idle"
    /\ ~metrics
    /\ reaper_error' = TRUE
    /\ resp' = NoResp
    /\ UNCHANGED <<tasks, lock, now, sess, metrics, next_lease, next_rid, ledger,
                   ledger_up, retry_queue, error_log, plans>>

\* A reclaim pass whose loop ends at a ReceiptEmissionError instead of logging
\* it: the pass stops at the row, its transaction open.
reclaim_after_emit_raising(st, ok) ==
    IF ok THEN [st EXCEPT !.i = @ + 1] ELSE [st EXCEPT !.pc = "raised"]

\* A reclaim pass after the emission for a row, ok telling whether it
\* succeeded: except ReceiptEmissionError only logs, the loop goes on.
reclaim_after_emit(st, ok) == [st EXCEPT !.i = @ + 1]

\* A reclaim pass, one row of its loop: the UPDATE ... WHERE task_id = :task_id
\* takes the row's lock; on the expiring branch the escalate receipt is
\* emitted, and a ReceiptEmissionError is logged and dropped.
ReclaimRow(p) ==
    LET row == sess[p].rows[sess[p].i]
        e == emit_receipt_with_retry(ledger, retry_queue, ledger_up, row.tenant_id,
                                     escalate_receipt(next_rid, row))
    IN  /\ sess[p].pc = "reclaim"
        /\ sess[p].i <= Len(sess[p].rows)
        /\ CanLock(p, {row.task_id})
        /\ lock' = [lock EXCEPT ![row.task_id] = p]
        /\ sess' = [sess EXCEPT ![p] =
               reclaim_after_emit(@, reclaim_can_retry(row) \/ e.ok)]
        /\ IF reclaim_can_retry(row)
           THEN UNCHANGED <<next_rid, ledger, retry_queue>>
           ELSE /\ next_rid <= MaxReceipts
                /\ next_rid' = next_rid + 1
                /\ ledger' = e.ledger
                /\ retry_queue' = e.queue
        /\ resp' = NoResp
        /\ UNCHANGED <<tasks, now, reaper_error, metrics, next_lease, ledger_up,
                       error_log, plans>>

\* The row a reclaim pass's UPDATE leaves, from the row the table holds.
reclaim_update(cur, row) ==
    IF reclaim_can_retry(row)
    THEN [cur EXCEPT !.status = "queued", !.lease_id = NULL, !.worker_id = NoWorker,
                     !.lease_expires_at = NULL, !.attempt = @ + 1]
    ELSE [cur EXCEPT !.status = "expired", !.completed_at = TRUE]

\* A reclaim pass, the commit after its loop: every row's UPDATE becomes visible.
ReclaimCommit(p) ==
    LET rows == sess[p].rows
        Read(t) == CHOOSE k \in 1..Len(rows) : rows[k].task_id = t
    IN  /\ sess[p].pc = "reclaim"
        /\ sess[p].i > Len(rows)
        /\ tasks' = [t \in TaskIds |->
               IF \E k \in 1..Len(rows) : rows[k].task_id = t
               THEN reclaim_update(tasks[t], rows[Read(t)])
               ELSE tasks[t]]
        /\ lock' = [t \in TaskIds |-> IF lock[t] = p THEN NoLock ELSE lock[t]]
        /\ sess' = [sess EXCEPT ![p] = Idle]
        /\ resp' = IF p = Reaper THEN NoResp ELSE Resp(p, "reclaim", 200, NULL, NULL)
        /\ UNCHANGED <<now, reaper_error, metrics, next_lease, next_rid, ledger,
                       ledger_up, retry_queue, error_log, plans>>

\* The task table after lease_expiry_worker's pass was cancelled with the
\* UPDATEs of its rows before position i executed: CancelledError passes
\* get_session's except Exception, the session closes without a commit and the
\* transaction is rolled back.
pass_abandoned_keeping_updates(ts, rows, i) ==
    [t \in 1..Len(ts) |->
        IF \E k \in 1..(i - 1) : rows[k].task_id = t
        THEN reclaim_update(ts[t], rows[CHOOSE k \in 1..(i - 1) : rows[k].task_id = t])
        ELSE ts[t]]

pass_abandoned(ts, rows, i) == ts

\* lease_expiry_worker cancelled in its sleep or at a database round trip of a
\* pass: except asyncio.CancelledError leaves the loop.
ReaperCancel ==
    /\ sess[Reaper].pc \in {"idle", "reclaim"}
    /\ tasks' = pass_abandoned(tasks, sess[Reaper].rows, sess[Reaper].i)
    /\ lock' = [t \in TaskIds |-> IF lock[t] = Reaper THEN NoLock ELSE lock[t]]
    /\ sess' = [sess EXCEPT ![Reaper] = [Idle EXCEPT !.pc = "cancelled"]]
    /\ resp' = NoResp
    /\ UNCHANGED <<now, reaper_error, metrics, next_lease, next_rid, ledger,
                   ledger_up, retry_queue, error_log, plans>>

\* lease_expiry_worker cancelled inside the emission call of a row it has
\* updated: the POST reached the ledger (stored) or not, nothing is queued.
ReaperCancelInEmit(stored) ==
    LET row == sess[Reaper].rows[sess[Reaper].i] IN
    /\ sess[Reaper].pc = "reclaim"
    /\ sess[Reaper].i <= Len(sess[Reaper].rows)
    /\ ~reclaim_can_retry(row)
    /\ CanLock(Reaper, {row.task_id})
    /\ next_rid <= MaxReceipts
    /\ next_rid' = next_rid + 1
    /\ ledger' = IF stored
                 THEN create_receipt_store(ledger, "dev-key-" \o row.tenant_id,
                                           escalate_receipt(next_rid, row))
                 ELSE ledger
    /\ tasks' = pass_abandoned(tasks, sess[Reaper].rows, sess[Reaper].i + 1)
    /\ lock' = [t \in TaskIds |-> IF lock[t] = Reaper THEN NoLock ELSE lock[t]]
    /\ sess' = [sess EXCEPT ![Reaper] = [Idle EXCEPT !.pc = "cancelled"]]
    /\ resp' = NoResp
    /\ UNCHANGED <<now, reaper_error, metrics, next_lease, ledger_up, retry_queue,
                   error_log, plans>>

\* ------------------------------------------------------------ drain worker

\* retry_worker's loop re-queueing an item whose retry_count has reached the
\* limit.
RECURSIVE drain_loop_retry_inclusive(_, _, _, _, _)
drain_loop_retry_inclusive(led, q, log, net, n) ==
    IF n = 0 \/ q = <<>>
    THEN [ledger |-> led, queue |-> q, log |-> log]
    ELSE LET item == [Head(q) EXCEPT !.retry_count = @ + 1]
             o == post_outcome(led, net, item.tenant_id, item.receipt_data)
         IN  IF o.code = 201
             THEN drain_loop_retry_inclusive(o.ledger, Tail(q), log, net, n - 1)
             ELSE IF item.retry_count <= DrainMaxRetries
             THEN drain_loop_retry_inclusive(o.ledger, Append(Tail(q), item), log,
                                             net, n - 1)
             ELSE drain_loop_retry_inclusive(o.ledger, Tail(q),
                             log \cup {item.receipt_data.receipt_id}, net, n - 1)

\* retry_worker, the for loop of one cycle with n items left to process, its
\* POSTs going over net.
RECURSIVE drain_loop(_, _, _, _, _)
drain_loop(led, q, log, net, n) ==
    IF n = 0 \/ q = <<>>
    THEN [ledger |-> led, queue |-> q, log |-> log]
    ELSE LET item == [Head(q) EXCEPT !.retry_count = @ + 1]
             o == post_outcome(led, net, item.tenant_id, item.receipt_data)
         IN  IF o.code = 201
             THEN drain_loop(o.ledger, Tail(q), log, net, n - 1)
             ELSE IF item.retry_count < DrainMaxRetries
             THEN drain_loop(o.ledger, Append(Tail(q), item), log, net, n - 1)
             ELSE drain_loop(o.ledger, Tail(q),
                             log \cup {item.receipt_data.receipt_id}, net, n - 1)

Min(a, b) == IF a < b THEN a ELSE b

\* retry_worker, one cycle over net.
DrainCycleOver(net) ==
    LET d == drain_loop(ledger, retry_queue, error_log, net,
                        Min(DrainBatch, Len(retry_queue)))
    IN  /\ retry_queue # <<>>
        /\ ledger' = d.ledger
        /\ retry_queue' = d.queue
        /\ error_log' = d.log
        /\ plans' = plans
        /\ resp' = NoResp
        /\ UNCHANGED <<tasks, lock, now, sess, reaper_error, metrics, next_lease,
                       next_rid, ledger_up>>

\* retry_worker, one cycle.
DrainCycle == DrainCycleOver(Net(ledger_up))

\* ------------------------------------------------------------------ planner

\* The ids of the plans table.
PlanIds == 1..Len(plans)

\* The task_id a plan's receipt carries: the plan_id, which is no task's id.
plan_task_id(p) == 0 - (p + 1)

PlanStep(step_type, description) == [step_type |-> step_type, description |-> description]

\* create_plan: the steps of a simple, a medium and a complex plan.
PlanShapes ==
    {<<PlanStep("queue_execution", "execute"), PlanStep("escalate", "report")>>,
     <<PlanStep("queue_execution", "primary"), PlanStep("wait_for", "wait"),
       PlanStep("aggregate", "synthesize"), PlanStep("escalate", "report")>>,
     <<PlanStep("queue_execution", "subtask 1"), PlanStep("queue_execution", "subtask 2"),
       PlanStep("wait_for", "wait"), PlanStep("aggregate", "synthesize"),
       PlanStep("escalate", "report")>>}

\* _emit_plan_receipt's receipt.
plan_receipt(rid, p, principal) ==
    accepted_receipt(rid, [task_id |-> plan_task_id(p), recipient_ai |-> principal,
                           task_summary |-> "Plan created"])

\* create_delegation_plan: INSERT the plan, commit, then one POST of the
\* plan_created receipt whose failure is only printed.
CreatePlan(s, api_key, steps, principal) ==
    LET tenant == get_tenant_from_api_key(api_key)
        p == Len(plans) + 1
        o == post_outcome(ledger, Net(ledger_up), tenant, plan_receipt(next_rid, p, principal))
    IN  /\ sess[s].pc = "idle"
        /\ tenant # NoTenant
        /\ Len(plans) < MaxPlans
        /\ next_rid <= MaxReceipts
        /\ plans' = Append(plans, [tenant_id |-> tenant, principal_ai |-> principal,
                                   steps |-> steps, status |-> "created"])
        /\ next_rid' = next_rid + 1
        /\ ledger' = o.ledger
        /\ resp' = [Resp(s, "plan", 201, NULL, NULL) EXCEPT !.receipt_id = next_rid]
        /\ UNCHANGED <<tasks, lock, now, sess, reaper_error, metrics, next_lease,
                       ledger_up, retry_queue, error_log>>

\* execute_plan, the SELECT: 404, the dry-run answer, or on to the loop.
ExecuteSelect(s, api_key, plan_id, dry_run) ==
    LET tenant == get_tenant_from_api_key(api_key)
        found == {p \in PlanIds : plans[p].tenant_id = tenant /\ p = plan_id}
        QueueSteps == {k \in 1..Len(plans[plan_id].steps) :
                          plans[plan_id].steps[k].step_type = "queue_execution"}
    IN  /\ sess[s].pc = "idle"
        /\ tenant # NoTenant
        /\ IF found = {}
           THEN /\ sess' = sess
                /\ resp' = Resp(s, "execute", 404, NULL, NULL)
           ELSE IF dry_run
           THEN /\ sess' = sess
                /\ resp' = [Resp(s, "execute", 200, NULL, NULL) EXCEPT !.rows =
                              <<[plan_id |-> plan_id, status |-> "validated",
                                 steps_queued |-> Cardinality(QueueSteps),
                                 receipt_ids |-> <<>>]>>]
           ELSE /\ sess' = [sess EXCEPT ![s] =
                       [Idle EXCEPT !.pc = "execute", !.tenant_id = tenant,
                            !.rows = plans[plan_id].steps, !.i = 1]
                         @@ [plan_id |-> plan_id, principal_ai |-> plans[plan_id].principal_ai,
                             posted |-> <<>>, receipt_ids |-> <<>>]]
                /\ resp' = NoResp
        /\ UNCHANGED <<tasks, lock, now, reaper_error, metrics, next_lease, next_rid,
                       ledger, ledger_up, retry_queue, error_log, plans>>

\* execute_plan's loop leaving at the first submission that fails.
execute_after_step_raising(st, ok) ==
    IF ok THEN [st EXCEPT !.i = @ + 1] ELSE [st EXCEPT !.pc = "raised"]

\* execute_plan's loop after a step, ok telling whether its submission
\* succeeded or the step needed none: except Exception only prints.
execute_after_step(st, ok) == [st EXCEPT !.i = @ + 1]

\* execute_plan, one step of its loop.  A queue_execution step is POSTed to the
\* coordinator's create_task under the key 'dev-key-' + tenant; reach tells
\* whether the coordinator answers.  create_task inserts the row, emits the
\* accepted receipt and answers 201, or 503 when the emission failed; any
\* answer but 2xx and any connect error raise in _queue_task.
ExecuteStep(s, reach) ==
    LET st == sess[s]
        step == st.rows[st.i]
        queue == step.step_type = "queue_execution"
        tenant == get_tenant_from_api_key("dev-key-" \o st.tenant_id)
        served == queue /\ reach /\ tenant # NoTenant
        t == Len(tasks) + 1
        row == [tenant_id |-> tenant, task_type |-> DefaultKind,
                task_summary |-> step.description, recipient_ai |-> st.principal_ai,
                status |-> "queued", priority |-> 0, attempt |-> 0,
                max_attempts |-> max_attempts_default, created_at |-> now,
                lease_id |-> NULL, worker_id |-> NoWorker, lease_expires_at |-> NULL,
                completed_at |-> FALSE]
        e == emit_receipt_with_retry(ledger, retry_queue, ledger_up, tenant,
                 accepted_receipt(next_rid, [task_id |-> t, recipient_ai |-> st.principal_ai,
                                             task_summary |-> step.description]))
        ok == served /\ e.ok
    IN  /\ st.pc = "execute"
        /\ st.i <= Len(st.rows)
        /\ IF served
           THEN /\ Len(tasks) < MaxTasks
                /\ next_rid <= MaxReceipts
                /\ tasks' = Append(tasks, row)
                /\ lock' = Append(lock, NoLock)
                /\ next_rid' = next_rid + 1
                /\ ledger' = e.ledger
                /\ retry_queue' = e.queue
           ELSE UNCHANGED <<tasks, lock, next_rid, ledger, retry_queue>>
        /\ sess' = [sess EXCEPT ![s] =
               [execute_after_step(st, ok \/ ~queue) EXCEPT
                   !.posted = IF queue THEN Append(@, st.i) ELSE @,
                   !.receipt_ids = IF ok THEN Append(@, next_rid) ELSE @]]
        /\ resp' = NoResp
        /\ UNCHANGED <<now, reaper_error, metrics, next_lease, ledger_up, error_log,
                       plans>>

\* execute_plan, after its loop: the UPDATE to executing, the commit, the answer.
ExecuteCommit(s) ==
    LET st == sess[s] IN
    /\ st.pc = "execute"
    /\ st.i > Len(st.rows)
    /\ plans' = [p \in PlanIds |->
           IF p = st.plan_id /\ plans[p].tenant_id = st.tenant_id
           THEN [plans[p] EXCEPT !.status = "executing"]
           ELSE plans[p]]
    /\ sess' = [sess EXCEPT ![s] = Idle]
    /\ resp' = [Resp(s, "execute", 200, NULL, NULL) EXCEPT !.rows =
                  <<[plan_id |-> st.plan_id, status |-> "started",
                     steps_queued |-> Len(st.receipt_ids),
                     receipt_ids |-> st.receipt_ids]>>]
    /\ UNCHANGED <<tasks, lock, now, reaper_error, metrics, next_lease, next_rid,
                   ledger, ledger_up, retry_queue, error_log>>

\* ----------------------------------------------------------- ledger service

\* The answer of the ledger to a request of a client outside the coordinator,
\* with the tenant the request was served as.
LedgerResp(tenant, op, code, receipt_id, rows) ==
    [NoResp EXCEPT !.proc = tenant, !.op = op, !.code = code,
                   !.receipt_id = receipt_id, !.rows = rows]

\* memorygate create_receipt (POST /receipts): validate, INSERT, commit.
AppendReceipt(api_key, rc) ==
    /\ ledger' = create_receipt_store(ledger, api_key, rc)
    /\ resp' = LedgerResp(get_tenant_from_api_key(api_key), "append",
                          create_receipt_status(ledger, api_key, rc),
                          rc.receipt_id, <<>>)
    /\ UNCHANGED <<tasks, lock, now, sess, reaper_error, metrics, next_lease,
                   next_rid, ledger_up, retry_queue, error_log, plans>>

Reverse(sq) == [i \in 1..Len(sq) |-> sq[Len(sq) + 1 - i]]

\* LIMIT n
Limit(sq, n) == SubSeq(sq, 1, Min(n, Len(sq)))

\* get_inbox with the archived_at IS NULL condition left out.
get_inbox_unfiltered(led, tenant, recipient, limit) ==
    LET Hit(r) == /\ r.tenant_id = tenant /\ r.recipient_ai = recipient
                  /\ r.phase = "accepted"
    IN  Limit(Reverse(SelectSeq(led, Hit)), limit)

\* get_inbox's query.  The table is kept in stored_at order, so ORDER BY
\* stored_at DESC is the reverse of the table order.
get_inbox(led, tenant, recipient, limit) ==
    LET Hit(r) == /\ r.tenant_id = tenant /\ r.recipient_ai = recipient
                  /\ r.phase = "accepted" /\ ~r.archived_at
    IN  Limit(Reverse(SelectSeq(led, Hit)), limit)

\* get_task_timeline's query.
get_task_timeline(led, tenant, task_id, asc) ==
    LET Hit(r) == r.tenant_id = tenant /\ r.task_id = task_id
    IN  IF asc THEN SelectSeq(led, Hit) ELSE Reverse(SelectSeq(led, Hit))

\* The recursive term without its r.tenant_id = :tenant_id condition.
RECURSIVE chain_join_any_tenant(_, _, _, _)
chain_join_any_tenant(led, tenant, c, i) ==
    IF i > Len(led) THEN <<>>
    ELSE (IF led[i].caused_by_receipt_id = led[c].receipt_id THEN <<i>> ELSE <<>>)
         \o chain_join_any_tenant(led, tenant, c, i + 1)

\* The recursive term of get_receipt_chain's CTE for one row c of the working
\* table: the positions of the caller's rows caused by c, one per joined pair.
RECURSIVE chain_join(_, _, _, _)
chain_join(led, tenant, c, i) ==
    IF i > Len(led) THEN <<>>
    ELSE (IF led[i].caused_by_receipt_id = led[c].receipt_id /\ led[i].tenant_id = tenant
          THEN <<i>> ELSE <<>>) \o chain_join(led, tenant, c, i + 1)

\* The recursive term applied to a whole working table.
RECURSIVE chain_step(_, _, _)
chain_step(led, tenant, work) ==
    IF work = <<>> THEN <<>>
    ELSE chain_join(led, tenant, Head(work), 1) \o chain_step(led, tenant, Tail(work))

\* WITH RECURSIVE ... UNION ALL: iterate until the working table is empty.  A
\* working table that is still non-empty after Len(led) rounds holds a row
\* reached over a path that repeats a row, so the iteration never ends.
RECURSIVE chain_iterate(_, _, _, _, _)
chain_iterate(led, tenant, work, acc, k) ==
    IF work = <<>> THEN [ends |-> TRUE, found |-> acc]
    ELSE IF k > Len(led) THEN [ends |-> FALSE, found |-> acc \o work]
    ELSE chain_iterate(led, tenant, chain_step(led, tenant, work), acc \o work, k + 1)

\* ORDER BY stored_at of the positions found: table order, a position as often
\* as it was found.
RECURSIVE order_by_stored_at(_, _, _)
order_by_stored_at(led, found, i) ==
    IF i > Len(led) THEN <<>>
    ELSE LET Same(j) == j = i
         IN  [n \in 1..Len(SelectSeq(found, Same)) |-> led[i]]
             \o order_by_stored_at(led, found, i + 1)

\* get_receipt_chain with the recursive term left out: the root alone.
get_receipt_chain_root_only(led, tenant, receipt_id) ==
    LET Root(r) == r.tenant_id = tenant /\ r.receipt_id = receipt_id
    IN  [ends |-> TRUE, rows |-> SelectSeq(led, Root)]

\* get_receipt_chain's query: whether it ends, and its rows if it does.
get_receipt_chain(led, tenant, receipt_id) ==
    LET Root(j) == led[j].tenant_id = tenant /\ led[j].receipt_id = receipt_id
        c == chain_iterate(led, tenant, SelectSeq([j \in 1..Len(led) |-> j], Root),
                           <<>>, 0)
    IN  [ends |-> c.ends,
         rows |-> IF c.ends THEN order_by_stored_at(led, c.found, 1) ELSE <<>>]

\* memorygate archive_receipt's UPDATE: the table after it.
archive_update(led, tenant, receipt_id) ==
    [i \in 1..Len(led) |->
        IF led[i].tenant_id = tenant /\ led[i].receipt_id = receipt_id
              /\ ~led[i].archived_at
        THEN [led[i] EXCEPT !.archived_at = TRUE]
        ELSE led[i]]

\* memorygate archive_receipt (POST /receipts/{receipt_id}/archive).
ArchiveReceipt(api_key, receipt_id) ==
    LET tenant == get_tenant_from_api_key(api_key) IN
    /\ ledger' = IF tenant = NoTenant THEN ledger
                 ELSE archive_update(ledger, tenant, receipt_id)
    /\ resp' = LedgerResp(tenant, "archive",
                          IF tenant = NoTenant THEN 401
                          ELSE IF ledger' = ledger THEN 404 ELSE 200,
                          receipt_id, <<>>)
    /\ UNCHANGED <<tasks, lock, now, sess, reaper_error, metrics, next_lease,
                   next_rid, ledger_up, retry_queue, error_log, plans>>

\* A GET of the ledger: it answers and changes nothing.
LedgerRead(api_key, op, found, receipt_id, rows) ==
    /\ resp' = LedgerResp(get_tenant_from_api_key(api_key), op,
                          IF get_tenant_from_api_key(api_key) = NoTenant THEN 401
                          ELSE IF found THEN 200 ELSE 404,
                          receipt_id,
                          IF get_tenant_from_api_key(api_key) # NoTenant /\ found
                          THEN rows ELSE <<>>)
    /\ UNCHANGED <<tasks, lock, now, sess, reaper_error, metrics, next_lease,
                   next_rid, ledger, ledger_up, retry_queue, error_log, plans>>

\* memorygate get_inbox (GET /inbox).
GetInbox(api_key, recipient, limit) ==
    LedgerRead(api_key, "inbox", TRUE, NULL,
               get_inbox(ledger, get_tenant_from_api_key(api_key), recipient, limit))

\* memorygate get_task_timeline (GET /receipts/task/{task_id}).
GetTimeline(api_key, task_id, asc) ==
    LedgerRead(api_key, "timeline", TRUE, NULL,
               get_task_timeline(ledger, get_tenant_from_api_key(api_key), task_id, asc))

\* memorygate get_receipt_chain (GET /receipts/chain/{receipt_id}), when its
\* query ends.
GetChain(api_key, receipt_id) ==
    LET c == get_receipt_chain(ledger, get_tenant_from_api_key(api_key), receipt_id)
    IN  /\ get_tenant_from_api_key(api_key) # NoTenant => c.ends
        /\ LedgerRead(api_key, "chain", TRUE, receipt_id, c.rows)

\* memorygate get_receipt_chain when its query does not end: the request is
\* never answered (code 0).
ChainDiverges(api_key, receipt_id) ==
    /\ get_tenant_from_api_key(api_key) # NoTenant
    /\ ~get_receipt_chain(ledger, get_tenant_from_api_key(api_key), receipt_id).ends
    /\ resp' = LedgerResp(get_tenant_from_api_key(api_key), "chain", 0, receipt_id, <<>>)
    /\ UNCHANGED <<tasks, lock, now, sess, reaper_error, metrics, next_lease,
                   next_rid, ledger, ledger_up, retry_queue, error_log, plans>>

\* memorygate get_receipt (GET /receipts/{receipt_id}).
GetReceipt(api_key, receipt_id) ==
    LET Hit(r) == /\ r.tenant_id = get_tenant_from_api_key(api_key)
                  /\ r.receipt_id = receipt_id
    IN  LedgerRead(api_key, "get", SelectSeq(ledger, Hit) # <<>>, receipt_id,
                   Limit(SelectSeq(ledger, Hit), 1))

\* bootstrap_session's recent-context query: the caller's last 10 receipts for
\* the agent, archived or not.
bootstrap_recent(led, tenant, recipient) ==
    LET Hit(r) == r.tenant_id = tenant /\ r.recipient_ai = recipient
    IN  Limit(Reverse(SelectSeq(led, Hit)), 10)

\* memorygate bootstrap_session (POST /bootstrap): the inbox of the agent
\* (LIMIT 50) followed by its recent context.
Bootstrap(api_key, agent_name) ==
    LedgerRead(api_key, "bootstrap", TRUE, NULL,
               get_inbox(ledger, get_tenant_from_api_key(api_key), agent_name, 50)
               \o bootstrap_recent(ledger, get_tenant_from_api_key(api_key), agent_name))

\* create_receipt split at its database round trip, for handlers that run
\* concurrently.  First part: authenticate, validate and read the clock
\* (stored_at = datetime.utcnow()); 401 or 400 end the request here.
AppendStamp(s, api_key, rc) ==
    LET tenant == get_tenant_from_api_key(api_key)
        row == [rc EXCEPT !.tenant_id = tenant, !.archived_at = FALSE]
                  @@ [stored_at |-> now]
    IN  /\ sess[s].pc = "idle"
        /\ IF tenant = NoTenant \/ ~validate_phase_constraints(rc)
           THEN /\ sess' = sess
                /\ resp' = LedgerResp(tenant, "append",
                                      IF tenant = NoTenant THEN 401 ELSE 400,
                                      rc.receipt_id, <<>>)
           ELSE /\ sess' = [sess EXCEPT ![s] =
                       [Idle EXCEPT !.pc = "append_insert", !.tenant_id = tenant,
                                    !.rows = <<row>>]]
                /\ resp' = NoResp
        /\ UNCHANGED <<tasks, lock, now, reaper_error, metrics, next_lease, next_rid,
                       ledger, ledger_up, retry_queue, error_log, plans>>

\* create_receipt, second part: the INSERT with the stored_at read before it,
\* and the commit; 409 when the (tenant_id, receipt_id) is already stored.
\* The table is kept in commit order here.
AppendInsert(s) ==
    LET row == sess[s].rows[1]
        dup == \E i \in 1..Len(ledger) :
                  /\ ledger[i].tenant_id = row.tenant_id
                  /\ ledger[i].receipt_id = row.receipt_id
    IN  /\ sess[s].pc = "append_insert"
        /\ ledger' = IF dup THEN ledger ELSE Append(ledger, row)
        /\ sess' = [sess EXCEPT ![s] = Idle]
        /\ resp' = LedgerResp(row.tenant_id, "append", IF dup THEN 409 ELSE 201,
                              row.receipt_id, <<>>)
        /\ UNCHANGED <<tasks, lock, now, reaper_error, metrics, next_lease, next_rid,
                       ledger_up, retry_queue, error_log, plans>>

\* ORDER BY stored_at ASC of rows given in commit order (rows of equal
\* stored_at in commit order).
RECURSIVE sort_stored_at(_)
sort_stored_at(rows) ==
    IF rows = <<>> THEN <<>>
    ELSE LET last == rows[Len(rows)]
             rest == sort_stored_at(SubSeq(rows, 1, Len(rows) - 1))
             Before(r) == r.stored_at <= last.stored_at
             After(r) == r.stored_at > last.stored_at
         IN  SelectSeq(rest, Before) \o <<last>> \o SelectSeq(rest, After)

\* get_task_timeline's query on a table kept in commit order.
timeline_by_stored_at(led, tenant, task_id) ==
    LET Hit(r) == r.tenant_id = tenant /\ r.task_id = task_id
    IN  sort_stored_at(SelectSeq(led, Hit))

\* memorygate get_task_timeline (GET /receipts/task/{task_id}) on that table.
GetTimelineStamped(api_key, task_id) ==
    LedgerRead(api_key, "timeline", TRUE, NULL,
               timeline_by_stored_at(ledger, get_tenant_from_api_key(api_key), task_id))

\* ------------------------------------------------------------- environment

Tick ==
    /\ now + TickSeconds <= MaxTicks * TickSeconds
    /\ now' = now + TickSeconds
    /\ resp' = NoResp
    /\ UNCHANGED <<tasks, lock, sess, reaper_error, metrics, next_lease, next_rid,
                   ledger, ledger_up, retry_queue, error_log, plans>>

\* The ledger becomes unreachable, or reachable again.
LedgerFlip ==
    /\ ledger_up' = ~ledger_up
    /\ resp' = NoResp
    /\ UNCHANGED <<tasks, lock, now, sess, reaper_error, metrics, next_lease,
                   next_rid, ledger, retry_queue, error_log, plans>>

\* ------------------------------------------------------------ specification

Init ==
    /\ tasks = <<>>
    /\ lock = <<>>
    /\ now = 0
    /\ sess = [p \in Procs |-> Idle]
    /\ reaper_error = FALSE
    /\ metrics \in BOOLEAN
    /\ next_lease = 1
    /\ next_rid = 1
    /\ ledger = <<>>
    /\ ledger_up = TRUE
    /\ retry_queue = <<>>
    /\ error_log = {}
    /\ plans = <<>>
    /\ resp = NoResp

\* The service as it starts by default: ENABLE_METRICS unset.
InitDefault == Init /\ ~metrics

Issued == 1..(next_lease - 1)

\* Worker requests racing each other, the admin reclaim and the reaper on one
\* tenant's rows, the ledger reachable throughout.
Next ==
    \/ \E s \in Sessions, pr \in Priorities, r \in Recipients :
          Len(tasks) < RaceTasks /\ CreateTask(s, "dev-key-alice", "demo", pr, r)
    \/ \E s \in Sessions : CreateEmit(s)
    \/ \E s \in Sessions, w \in Workers : LeaseSelect(s, "dev-key-alice", w)
    \/ \E s \in Sessions : LeaseUpdate(s)
    \/ \E s \in Sessions, l \in Issued, w \in Workers :
          HeartbeatSelect(s, "dev-key-alice", l, w)
    \/ \E s \in Sessions : HeartbeatUpdate(s)
    \/ \E s \in Sessions, l \in Issued, w \in Workers :
          CompleteSelect(s, "dev-key-alice", l, w)
    \/ \E s \in Sessions : CompleteUpdate(s)
    \/ \E s \in Sessions : CompleteEmit(s, "success", "none")
    \/ \E s \in Sessions, l \in Issued, w \in Workers, b \in BOOLEAN :
          FailSelect(s, "dev-key-alice", l, w, b)
    \/ \E s \in Sessions : FailRetry(s)
    \/ \E s \in Sessions : FailFinal(s)
    \/ \E s \in Sessions : AdminSelect(s, "dev-key-alice")
    \/ ReaperSelect
    \/ ReaperNameError
    \/ \E p \in Procs : ReclaimRow(p)
    \/ \E p \in Procs : ReclaimCommit(p)
    \/ Tick

Spec == Init /\ [][Next]_vars

\* Concurrent pollers of two tenants leasing the tasks of a shared table.
NextLease ==
    \/ \E s \in Sessions, k \in ApiKeys, pr \in Priorities, r \in Recipients :
          CreateTask(s, k, "demo", pr, r)
    \/ \E s \in Sessions : CreateEmit(s)
    \/ \E s \in Sessions, k \in ApiKeys, w \in Workers : LeaseSelect(s, k, w)
    \/ \E s \in Sessions : LeaseUpdate(s)

SpecLease == InitDefault /\ [][NextLease]_vars

\* One client and one worker against a ledger that comes and goes, with the
\* drain worker running.
NextEmit ==
    \/ \E k \in ApiKeys, m \in Summaries, pr \in Priorities, r \in Recipients :
          Len(tasks) < RaceTasks /\ CreateTask("s1", k, m, pr, r)
    \/ CreateEmit("s1")
    \/ \E k \in ApiKeys : LeaseSelect("s1", k, "w1")
    \/ LeaseUpdate("s1")
    \/ \E k \in ApiKeys, l \in Issued : CompleteSelect("s1", k, l, "w1")
    \/ CompleteUpdate("s1")
    \/ CompleteEmit("s1", "success", "none")
    \/ \E k \in ApiKeys, l \in Issued, b \in BOOLEAN : FailSelect("s1", k, l, "w1", b)
    \/ FailRetry("s1")
    \/ FailFinal("s1")
    \/ DrainCycle
    \/ LedgerFlip

SpecEmit == InitDefault /\ [][NextEmit]_vars

\* Receipts a client re-sends under an id that may already be stored.
DupReceipts ==
    {accepted_receipt(r, [task_id |-> 1, recipient_ai |-> "worker.alice",
                          task_summary |-> "demo"]) : r \in 1..2}

\* One client creating tasks over a network that loses answers, other clients
\* appending receipts directly, and the drain worker running.
NextDup ==
    \/ \E r \in Recipients : CreateTask("s1", "dev-key-alice", "demo", 0, r)
    \/ \E nets \in [1..max_retries -> NetModes] : CreateEmitOver("s1", nets)
    \/ \E k \in ApiKeys, rc \in DupReceipts : AppendReceipt(k, rc)
    \/ DrainCycle

SpecDup == InitDefault /\ [][NextDup]_vars

\* The row a directly appended receipt refers to.
ClientRow == [task_id |-> 1, attempt |-> 0, recipient_ai |-> "worker.alice",
              task_summary |-> "demo"]

\* ReceiptCreate bodies that differ from rc in at most one validated slot.
OneSlotOff(rc) ==
    {rc}
    \cup {[rc EXCEPT !.status = v] : v \in {"NA", "success"}}
    \cup {[rc EXCEPT !.completed_at = v] : v \in BOOLEAN}
    \cup {[rc EXCEPT !.task_summary = v] : v \in Summaries}
    \cup {[rc EXCEPT !.outcome_kind = v] : v \in {"NA", "none", "mixed"}}
    \cup {[rc EXCEPT !.artifact_pointer = v] : v \in {"NA", "ptr"}}
    \cup {[rc EXCEPT !.artifact_location = v] : v \in {"NA", "s3"}}
    \cup {[rc EXCEPT !.artifact_mime = v] : v \in {"NA", "text/plain"}}
    \cup {[rc EXCEPT !.escalation_class = v] : v \in {"NA", "policy"}}
    \cup {[rc EXCEPT !.escalation_reason = v] : v \in {"NA", "TBD", "exhausted"}}
    \cup {[rc EXCEPT !.escalation_to = v] : v \in {"NA", "delegate"}}
    \cup {[rc EXCEPT !.recipient_ai = v] : v \in {"worker.alice", "delegate"}}
    \cup {[rc EXCEPT !.retry_requested = v] : v \in BOOLEAN}
    \cup {[rc EXCEPT !.attempt = v, !.retry_requested = TRUE] : v \in {0, 1}}

\* Bodies of POST /receipts of every phase, well-formed and one slot off.
PhaseReceipts ==
    UNION {OneSlotOff(rc) :
             rc \in {accepted_receipt(1, ClientRow),
                     complete_receipt(1, ClientRow, "success", "none"),
                     [complete_receipt(1, ClientRow, "failure", "mixed")
                        EXCEPT !.artifact_pointer = "ptr",
                               !.artifact_location = "s3",
                               !.artifact_mime = "text/plain"],
                     escalate_receipt(1, ClientRow)}}

\* Clients appending receipts of every phase to the ledger.
NextPhase ==
    \E k \in ApiKeys \cup {"no-key"}, rc \in PhaseReceipts : AppendReceipt(k, rc)

SpecPhase == InitDefault /\ [][NextPhase]_vars

\* Receipt ids clients choose.
ReceiptIds == 1..MaxChain

\* Bodies of POST /receipts that differ in their id and their provenance link.
ChainReceipts ==
    {[accepted_receipt(r, ClientRow) EXCEPT !.caused_by_receipt_id = c] :
        r \in ReceiptIds, c \in ReceiptIds \cup {NULL}}

\* Clients of two tenants appending linked receipts and asking for chains.
NextChain ==
    \/ \E k \in ApiKeys, rc \in ChainReceipts :
          Len(ledger) < MaxLedger /\ AppendReceipt(k, rc)
    \/ \E k \in ApiKeys, r \in ReceiptIds : GetChain(k, r)
    \/ \E k \in ApiKeys, r \in ReceiptIds : ChainDiverges(k, r)

SpecChain == InitDefault /\ [][NextChain]_vars

ArchiveIds == 1..MaxArchive

\* Bodies of POST /receipts of the accepted and the complete phase.
ArchiveReceipts ==
    UNION {{[accepted_receipt(r, ClientRow) EXCEPT !.caused_by_receipt_id = c],
            [complete_receipt(r, ClientRow, "success", "none")
               EXCEPT !.caused_by_receipt_id = c]} :
             r \in ArchiveIds, c \in {NULL, 1}}

\* limit of GET /inbox (1 and its default 20) and of bootstrap_session (50)
InboxLimits == {1, 20, 50}

\* Clients of two tenants appending, archiving and reading receipts.
NextArchive ==
    \/ \E k \in ApiKeys, rc \in ArchiveReceipts :
          Len(ledger) < MaxLedger /\ AppendReceipt(k, rc)
    \/ \E k \in ApiKeys, r \in ArchiveIds : ArchiveReceipt(k, r)
    \/ \E k \in ApiKeys, a \in Recipients, n \in InboxLimits : GetInbox(k, a, n)
    \/ \E k \in ApiKeys, asc \in BOOLEAN : GetTimeline(k, 1, asc)
    \/ \E k \in ApiKeys, r \in ArchiveIds : GetChain(k, r)

SpecArchive == InitDefault /\ [][NextArchive]_vars

\* Credentials of two tenants whose receipts the emitter can deliver.
TenantKeys == {"dev-key-alice", "dev-key-bob"}

\* The body of a POST /receipts of a client: a receipt that names receipt 1 as
\* its cause.
TenantReceipts ==
    {[accepted_receipt(MaxReceipts + 1, ClientRow) EXCEPT !.caused_by_receipt_id = 1]}

\* The tenant of the key has no task yet.
NoTaskOf(k) == \A t \in TaskIds : tasks[t].tenant_id # get_tenant_from_api_key(k)

\* Every tenant has its task and one of the tasks has reached a terminal
\* status.
Settled ==
    /\ Len(tasks) = MaxTasks
    /\ \E t \in TaskIds : tasks[t].status \in {"completed", "failed", "expired"}

\* One client at a time, of either tenant, using every operation of the
\* coordinator, each tenant with one task of which one is leased, and then
\* every operation of the ledger on the receipts of both.
NextTenants ==
    \/ \E k \in TenantKeys, r \in Recipients :
          NoTaskOf(k) /\ CreateTask("s1", k, "demo", 0, r)
    \/ CreateEmit("s1")
    \/ \E k \in TenantKeys, t \in 1..MaxTasks : GetTask("s1", k, t)
    \/ \E k \in TenantKeys : next_lease = 1 /\ LeaseSelect("s1", k, "w1")
    \/ LeaseUpdate("s1")
    \/ \E k \in TenantKeys, l \in Issued : HeartbeatSelect("s1", k, l, "w1")
    \/ HeartbeatUpdate("s1")
    \/ \E k \in TenantKeys, l \in Issued : CompleteSelect("s1", k, l, "w1")
    \/ CompleteUpdate("s1")
    \/ CompleteEmit("s1", "success", "none")
    \/ \E k \in TenantKeys, l \in Issued, b \in BOOLEAN :
          FailSelect("s1", k, l, "w1", b)
    \/ FailRetry("s1")
    \/ FailFinal("s1")
    \/ \E k \in TenantKeys : AdminSelect("s1", k)
    \/ ReclaimRow("s1")
    \/ ReclaimCommit("s1")
    \/ ~Settled /\ Tick
    \/ \E k \in TenantKeys, rc \in TenantReceipts : Settled /\ AppendReceipt(k, rc)
    \/ \E k \in TenantKeys : Settled /\ ArchiveReceipt(k, 1)
    \/ \E k \in TenantKeys : Settled /\ GetReceipt(k, 1)
    \/ \E k \in TenantKeys, a \in Recipients : Settled /\ GetInbox(k, a, 20)
    \/ \E k \in TenantKeys : Settled /\ GetTimeline(k, 1, TRUE)
    \/ \E k \in TenantKeys : Settled /\ GetChain(k, 1)

SpecTenants == InitDefault /\ [][NextTenants]_vars

\* Bodies of POST /receipts under two ids, with and without a provenance link:
\* a re-sent id may carry a different body.
LedgerReceipts ==
    {[accepted_receipt(r, ClientRow) EXCEPT !.caused_by_receipt_id = c] :
        r \in ArchiveIds, c \in {NULL, 1}}

\* Clients of two tenants using every operation of the ledger.
NextLedger ==
    \/ \E k \in ApiKeys, rc \in LedgerReceipts :
          Len(ledger) < MaxLedger /\ AppendReceipt(k, rc)
    \/ \E k \in ApiKeys, r \in ArchiveIds : ArchiveReceipt(k, r)
    \/ \E k \in ApiKeys, a \in Recipients : GetInbox(k, a, 20)
    \/ \E k \in ApiKeys : GetTimeline(k, 1, TRUE)
    \/ \E k \in ApiKeys, r \in ArchiveIds : GetChain(k, r)
    \/ \E k \in ApiKeys, r \in ArchiveIds : ChainDiverges(k, r)
    \/ \E k \in ApiKeys, r \in ArchiveIds : GetReceipt(k, r)
    \/ \E k \in ApiKeys, a \in Recipients : Bootstrap(k, a)

SpecLedger == InitDefault /\ [][NextLedger]_vars

\* Two handlers of the ledger appending receipts of two tenants concurrently
\* while the clock advances, and clients reading the timeline.
NextOrder ==
    \/ \E s \in Sessions, k \in ApiKeys, rc \in DupReceipts : AppendStamp(s, k, rc)
    \/ \E s \in Sessions : AppendInsert(s)
    \/ \E k \in ApiKeys : GetTimelineStamped(k, 1)
    \/ Tick

SpecOrder == InitDefault /\ [][NextOrder]_vars

\* A task of alice that was leased and failed with a retry attempt times, back
\* in the queue.
RetriedRow(attempt) ==
    [tenant_id |-> "alice", task_type |-> DefaultKind, task_summary |-> "demo",
     recipient_ai |-> "worker.alice",
     status |-> "queued", priority |-> 0, attempt |-> attempt,
     max_attempts |-> max_attempts_default, created_at |-> 0, lease_id |-> NULL,
     worker_id |-> NoWorker, lease_expires_at |-> NULL, completed_at |-> FALSE]

\* The accepted receipts of the first n tasks, as create_task stored them.
RECURSIVE AcceptedLedger(_, _)
AcceptedLedger(ts, n) ==
    IF n = 0 THEN <<>>
    ELSE Append(AcceptedLedger(ts, n - 1),
                [accepted_receipt(n, [task_id |-> n, recipient_ai |-> ts[n].recipient_ai,
                                      task_summary |-> ts[n].task_summary])
                   EXCEPT !.tenant_id = ts[n].tenant_id])

\* The service with MaxTasks tasks in its queue, each fresh or requeued once
\* or twice.
InitRetried ==
    /\ tasks \in {<<RetriedRow(a), RetriedRow(b)>> :
                    a \in {0, max_attempts_default - 1},
                    b \in 1..(max_attempts_default - 1)}
    /\ lock = [t \in 1..MaxTasks |-> NoLock]
    /\ now = 0
    /\ sess = [p \in Procs |-> Idle]
    /\ reaper_error = FALSE
    /\ metrics \in BOOLEAN
    /\ next_lease = 1
    /\ next_rid = MaxTasks + 1
    /\ ledger = AcceptedLedger(tasks, MaxTasks)
    /\ ledger_up = TRUE
    /\ retry_queue = <<>>
    /\ error_log = {}
    /\ plans = <<>>
    /\ resp = NoResp

\* A worker leasing the tasks, the leases running out, and the reaper being
\* cancelled anywhere in its loop.
NextCancel ==
    \/ LeaseSelect("s1", "dev-key-alice", "w1")
    \/ LeaseUpdate("s1")
    \/ Tick
    \/ ReaperSelect
    \/ ReaperNameError
    \/ ReclaimRow(Reaper)
    \/ ReclaimCommit(Reaper)
    \/ ReaperCancel
    \/ \E stored \in BOOLEAN : ReaperCancelInEmit(stored)

SpecCancel == InitRetried /\ [][NextCancel]_vars

\* That service started with ENABLE_METRICS=true, where the reaper's passes
\* find get_session.
InitRetriedMetrics == InitRetried /\ metrics

\* Two workers' handlers leasing and failing the tasks, with the reclaim
\* passes running as leases expire.
NextFail ==
    \/ \E s \in Sessions : LeaseSelect(s, "dev-key-alice", "w1")
    \/ \E s \in Sessions : LeaseUpdate(s)
    \/ \E s \in Sessions, l \in Issued, b \in BOOLEAN :
          FailSelect(s, "dev-key-alice", l, "w1", b)
    \/ \E s \in Sessions : FailRetry(s)
    \/ \E s \in Sessions : FailFinal(s)
    \/ ReaperSelect
    \/ ReclaimRow(Reaper)
    \/ ReclaimCommit(Reaper)
    \/ Tick

SpecFail == InitRetriedMetrics /\ [][NextFail]_vars

\* One worker leasing and failing the tasks, the admin reclaim and the reaper
\* running as leases expire: every source of escalate receipts.
NextEscalate ==
    \/ LeaseSelect("s1", "dev-key-alice", "w1")
    \/ LeaseUpdate("s1")
    \/ \E l \in Issued, b \in BOOLEAN : FailSelect("s1", "dev-key-alice", l, "w1", b)
    \/ FailRetry("s1")
    \/ FailFinal("s1")
    \/ AdminSelect("s1", "dev-key-alice")
    \/ ReaperSelect
    \/ \E p \in {"s1", Reaper} : ReclaimRow(p)
    \/ \E p \in {"s1", Reaper} : ReclaimCommit(p)
    \/ Tick

SpecEscalate == InitRetriedMetrics /\ [][NextEscalate]_vars

\* Clients of two tenants creating tasks, some with a summary the ledger
\* rejects, over a network that fails and loses answers, while another client
\* stores receipts under ids the emitter is about to use.
NextLoop ==
    \/ \E k \in ApiKeys, m \in Summaries, r \in Recipients :
          CreateTask("s1", k, m, 0, r)
    \/ \E nets \in [1..max_retries -> NetModes] : CreateEmitOver("s1", nets)
    \/ \E rc \in DupReceipts : AppendReceipt("dev-key-alice", rc)

SpecLoop == InitDefault /\ [][NextLoop]_vars

\* The run of SpecEmit with the drain worker's loop scheduled again and again:
\* lifespan starts retry_worker as a task that sleeps and runs a cycle forever.
SpecEmitLive == SpecEmit /\ WF_vars(DrainCycle)

\* One worker leasing the tasks, the leases running out, the admin reclaim and
\* the reaper passing over them while the ledger comes and goes, and the drain
\* worker running.
NextReclaim ==
    \/ LeaseSelect("s1", "dev-key-alice", "w1")
    \/ LeaseUpdate("s1")
    \/ Tick
    \/ LedgerFlip
    \/ AdminSelect("s1", "dev-key-alice")
    \/ ReaperSelect
    \/ \E p \in {"s1", Reaper} : ReclaimRow(p)
    \/ \E p \in {"s1", Reaper} : ReclaimCommit(p)
    \/ DrainCycle

SpecReclaim == InitRetriedMetrics /\ [][NextReclaim]_vars

\* A client creating tasks of two kinds and priorities while two workers'
\* handlers lease, with and without preferred_kinds.
NextPrefer ==
    \/ \E ty \in Kinds, pr \in KindPriorities :
          CreateTaskOfType("s1", "dev-key-alice", ty, "demo", pr, "worker.alice")
    \/ CreateEmit("s1")
    \/ \E s \in Sessions, k \in ApiKeys : LeaseSelect(s, k, "w1")
    \/ \E s \in Sessions, k \in ApiKeys, kinds \in SUBSET Kinds :
          LeasePreferSelect(s, k, "w1", kinds)
    \/ \E s \in Sessions : LeaseFallbackSelect(s)
    \/ \E s \in Sessions : LeaseUpdate(s)
    \/ Tick

SpecPrefer == InitDefault /\ [][NextPrefer]_vars

\* A principal creating plans and executing them, dry and for real, while the
\* coordinator and the ledger come and go.
NextPlan ==
    \/ \E k \in ApiKeys, steps \in PlanShapes : CreatePlan("s1", k, steps, "worker.alice")
    \/ \E s \in Sessions, k \in ApiKeys, p \in 1..MaxPlans, d \in BOOLEAN :
          ExecuteSelect(s, k, p, d)
    \/ \E s \in Sessions, reach \in BOOLEAN : ExecuteStep(s, reach)
    \/ \E s \in Sessions : ExecuteCommit(s)
    \/ LedgerFlip

SpecPlan == InitDefault /\ [][NextPlan]_vars

\* outcome_kind values a worker sends with Complete; it sends no artifact.
OutcomeKinds == {"none", "artifact_pointer"}

\* One client and one worker completing the task with any outcome against a
\* ledger that comes and goes, with the drain worker running.
NextComplete ==
    \/ \E r \in Recipients : CreateTask("s1", "dev-key-alice", "demo", 0, r)
    \/ CreateEmit("s1")
    \/ LeaseSelect("s1", "dev-key-alice", "w1")
    \/ LeaseUpdate("s1")
    \/ \E l \in Issued : CompleteSelect("s1", "dev-key-alice", l, "w1")
    \/ CompleteUpdate("s1")
    \/ \E st \in {"success", "failure"}, ok \in OutcomeKinds : CompleteEmit("s1", st, ok)
    \/ DrainCycle
    \/ LedgerFlip

SpecComplete == InitDefault /\ [][NextComplete]_vars

\* The leases that have run out on rows no reclaim pass has changed yet.
RunOut ==
    {tasks[t].lease_id : t \in {u \in TaskIds : /\ tasks[u].status = "leased"
                                                /\ tasks[u].lease_expires_at < now}}

\* A worker that heartbeats and completes only after its leases have run out,
\* with the admin reclaim passing over the same rows.
NextExpired ==
    \/ \E r \in Recipients : CreateTask("s1", "dev-key-alice", "demo", 0, r)
    \/ CreateEmit("s1")
    \/ LeaseSelect("s1", "dev-key-alice", "w1")
    \/ LeaseUpdate("s1")
    \/ Tick
    \/ \E l \in RunOut : HeartbeatSelect("s1", "dev-key-alice", l, "w1")
    \/ HeartbeatUpdate("s1")
    \/ \E l \in RunOut : CompleteSelect("s1", "dev-key-alice", l, "w1")
    \/ CompleteUpdate("s1")
    \/ CompleteEmit("s1", "success", "none")
    \/ AdminSelect("s2", "dev-key-alice")
    \/ ReclaimRow("s2")
    \/ ReclaimCommit("s2")

SpecExpired == InitDefault /\ [][NextExpired]_vars

\* ------------------------------------------------------------------ claims

\* A step in which a Lease request of session s answers 200.
LeaseGranted(s) ==
    /\ sess[s].pc = "lease_update"
    /\ resp'.proc = s /\ resp'.op = "lease" /\ resp'.code = 200

\* C1: under every interleaving of concurrent Lease calls no task is handed to
\* two callers: two Lease requests in flight never hold the same row, and every
\* successful Lease names a row that was queued (handed to nobody) until that
\* step, puts a lease id no row carried before on it, and leaves the row with
\* exactly that lease_id / worker_id pair.
C1_NoDoubleLease ==
    [][/\ \A s1, s2 \in Sessions :
            (s1 # s2 /\ sess'[s1].pc = "lease_update" /\ sess'[s2].pc = "lease_update")
                => sess'[s1].rows[1].task_id # sess'[s2].rows[1].task_id
       /\ \A s \in Sessions : LeaseGranted(s) =>
            /\ tasks[resp'.task_id].status = "queued"
            /\ \A t \in TaskIds : tasks[t].lease_id # resp'.lease_id
            /\ tasks'[resp'.task_id].status = "leased"
            /\ tasks'[resp'.task_id].lease_id = resp'.lease_id
            /\ tasks'[resp'.task_id].worker_id = sess[s].worker_id
            /\ \A t \in TaskIds \ {resp'.task_id} : tasks'[t] = tasks[t]]_vars

\* Two pollers of one tenant raced: one has just been granted a task while
\* the other is between its SELECT and its UPDATE on another row.
C1_Witness ==
    /\ resp.op = "lease" /\ resp.code = 200
    /\ \E s \in Sessions :
        /\ s # resp.proc
        /\ sess[s].pc = "lease_update"
        /\ sess[s].tenant_id = tasks[resp.task_id].tenant_id
        /\ sess[s].rows[1].task_id # resp.task_id

Terminal == {"completed", "failed", "expired"}

\* C2: once a task's status is completed, failed or expired the row never
\* changes again, whatever Lease, Heartbeat, Complete, Fail or reclaim pass
\* runs next.
C2_TerminalIsFinal ==
    [][\A t \in TaskIds : tasks[t].status \in Terminal => tasks'[t] = tasks[t]]_vars

\* C3: a Heartbeat and a concurrent reclaim pass on one row are serialized:
\* when a Heartbeat answers extended the row is leased under that lease with
\* the new expiry, and no reclaim pass that read the row before the extension
\* is on its way to reclaim it.
C3_HeartbeatSerialized ==
    (resp.op = "heartbeat" /\ resp.code = 200) =>
        /\ tasks[resp.task_id].status = "leased"
        /\ tasks[resp.task_id].lease_id = resp.lease_id
        /\ tasks[resp.task_id].lease_expires_at = now + LEASE_DURATION_SECONDS
        /\ \A p \in Procs : sess[p].pc = "reclaim" =>
              \A k \in 1..Len(sess[p].rows) : sess[p].rows[k].task_id # resp.task_id

\* C4: Heartbeat, Complete and Fail are gated by the lease identity: a call
\* goes on to its UPDATE only when a row in status leased matches its (tenant,
\* lease_id, worker_id), and a call answered not_found changes no task row and
\* emits no receipt (nothing reaches the ledger or the overflow queue).
C4_LeaseIdentityGate ==
    [][\A s \in Sessions :
        /\ (sess[s].pc = "idle"
              /\ sess'[s].pc \in {"heartbeat_update", "complete_update", "fail_update"})
           => \E t \in TaskIds :
                /\ tasks[t].tenant_id = sess'[s].tenant_id
                /\ tasks[t].lease_id = sess'[s].lease_id
                /\ tasks[t].worker_id = sess'[s].worker_id
                /\ tasks[t].status = "leased"
                /\ sess'[s].rows[1].task_id = t
        /\ (resp'.proc = s /\ resp'.code = 404)
           => /\ resp'.op \in {"heartbeat", "complete", "fail"}
              /\ sess[s].pc = "idle" /\ sess'[s].pc = "idle"
              /\ tasks' = tasks
              /\ ledger' = ledger
              /\ retry_queue' = retry_queue
              /\ next_rid' = next_rid]_vars

\* A Complete was answered not_found although the lease it names is live: the
\* row is leased under that lease_id, to another worker.
C4_Witness ==
    /\ resp.op = "complete" /\ resp.code = 404
    /\ \E t \in TaskIds : tasks[t].status = "leased" /\ tasks[t].lease_id = resp.lease_id

\* C5: every task that is leased with lease_expires_at before the clock when a
\* reaper pass starts is, when that pass ends, back in queued with its lease
\* fields cleared and attempt one more than the pass read (attempt + 1 <
\* max_attempts), or in expired.
C5_ReclaimComplete ==
    [][/\ (~reaper_error /\ reaper_error') =>
            \A t \in TaskIds :
                ~(tasks[t].status = "leased" /\ tasks[t].lease_expires_at < now)
       /\ (sess[Reaper].pc = "reclaim" /\ sess'[Reaper].pc = "idle") =>
            \A k \in 1..Len(sess[Reaper].rows) :
                LET row == sess[Reaper].rows[k]
                    new == tasks'[row.task_id]
                IN  IF row.attempt + 1 < row.max_attempts
                    THEN /\ new.status = "queued"
                         /\ new.lease_id = NULL /\ new.worker_id = NoWorker
                         /\ new.lease_expires_at = NULL
                         /\ new.attempt = row.attempt + 1
                    ELSE new.status = "expired"]_vars

\* C6: a row in status queued or leased has attempt < max_attempts.
C6_NoLeaseAtMaxAttempts ==
    \A t \in TaskIds :
        tasks[t].status \in {"queued", "leased"} => tasks[t].attempt < tasks[t].max_attempts

\* C7 (invariant T3): every task row has attempt <= max_attempts.
C7_AttemptBounded ==
    \A t \in TaskIds : tasks[t].attempt <= tasks[t].max_attempts

\* C8 (invariant T1): a row's lease fields are non-null when its status is
\* leased and null in every other status.
C8_LeaseFieldsIffLeased ==
    \A t \in TaskIds :
        IF tasks[t].status = "leased"
        THEN /\ tasks[t].lease_id # NULL /\ tasks[t].worker_id # NoWorker
             /\ tasks[t].lease_expires_at # NULL
        ELSE /\ tasks[t].lease_id = NULL /\ tasks[t].worker_id = NoWorker
             /\ tasks[t].lease_expires_at = NULL

InQueue(q, rid) == \E i \in 1..Len(q) : q[i].receipt_data.receipt_id = rid

InLedger(led, rid) == \E i \in 1..Len(led) : led[i].receipt_id = rid

\* A step in which the Emit of a handler ended with emission_failed: Create
\* answers 503, Complete and Fail answer 500.
EmissionFailed == resp'.code \in {500, 503}

\* The receipt the handler of session s emits in its next step.
EmittedReceipt(s) ==
    CASE sess[s].pc = "create_emit" -> accepted_receipt(next_rid, sess[s].rows[1])
      [] sess[s].pc = "complete_emit" ->
             complete_receipt(next_rid, sess[s].rows[1], "success", "none")
      [] OTHER -> escalate_receipt(next_rid, sess[s].rows[1])

C10_CreateUnavailable ==
    (resp.op = "create" /\ resp.code = 503) =>
        /\ resp.task_id \in TaskIds
        /\ tasks[resp.task_id].status = "queued"
        /\ \E i \in 1..Len(retry_queue) :
              /\ retry_queue[i].receipt_data.task_id = resp.task_id
              /\ retry_queue[i].receipt_data.phase = "accepted"

\* Two rows of the ledger with the same (tenant_id, receipt_id).
DuplicateRows(led) ==
    \E i, j \in 1..Len(led) :
        i # j /\ led[i].tenant_id = led[j].tenant_id
              /\ led[i].receipt_id = led[j].receipt_id

\* A step of the drain worker.
DrainStep == retry_queue # <<>> /\ retry_queue' # retry_queue /\ sess' = sess

\* An Append step keeps (tenant_id, receipt_id) unique: it answers 409 exactly
\* when it is valid, authorised and stores nothing, and then the id was stored.
AppendDeduplicates ==
    /\ ~DuplicateRows(ledger')
    /\ resp'.op = "append" =>
          /\ resp'.code = 409 => ledger' = ledger /\ InLedger(ledger, resp'.receipt_id)
          /\ resp'.code = 201 => Len(ledger') = Len(ledger) + 1
          /\ resp'.code \in {201, 400, 401, 409}

\* A foreground emission whose receipt is in the ledger and was not queued
\* ended in success.
ForegroundDuplicateIsSuccess ==
    (sess["s1"].pc = "create_emit" /\ sess'["s1"].pc = "idle"
       /\ InLedger(ledger', next_rid) /\ ~InQueue(retry_queue', next_rid))
    => resp'.code = 201

\* A drain cycle with the ledger answering takes every queued receipt that the
\* ledger already holds out of the queue and logs no error for it.
DrainDuplicateIsSuccess ==
    (DrainStep /\ ledger_up) =>
        \A i \in 1..Min(DrainBatch, Len(retry_queue)) :
            InLedger(ledger, retry_queue[i].receipt_data.receipt_id) =>
                /\ ~InQueue(retry_queue', retry_queue[i].receipt_data.receipt_id)
                /\ retry_queue[i].receipt_data.receipt_id \notin error_log'

\* C11: the ledger never holds two rows with the same (tenant_id, receipt_id)
\* and a second Append of a stored id answers 409 and changes nothing; the
\* emission client takes that answer as success in the foreground attempt loop
\* and when the drain worker re-sends a queued receipt.
C11_DuplicateIdempotence ==
    [][AppendDeduplicates /\ ForegroundDuplicateIsSuccess /\ DrainDuplicateIsSuccess]_vars

\* "NA" in every slot of the escalation block.
NoEscalation(rc) ==
    rc.escalation_class = "NA" /\ rc.escalation_reason = "NA" /\ rc.escalation_to = "NA"

\* The I2 rules of the receipt's phase, and I3.
PhaseRules(rc) ==
    /\ CASE rc.phase = "accepted" ->
            /\ rc.status = "NA" /\ ~rc.completed_at /\ rc.outcome_kind = "NA"
            /\ NoEscalation(rc)
            /\ rc.artifact_pointer = "NA" /\ rc.artifact_location = "NA"
            /\ rc.artifact_mime = "NA"
            /\ rc.task_summary # "TBD"
         [] rc.phase = "complete" ->
            /\ rc.status \in {"success", "failure", "canceled"}
            /\ rc.completed_at /\ rc.outcome_kind # "NA"
            /\ NoEscalation(rc)
            /\ rc.outcome_kind \in {"artifact_pointer", "mixed"} =>
                  /\ rc.artifact_pointer # "NA" /\ rc.artifact_location # "NA"
                  /\ rc.artifact_mime # "NA"
         [] rc.phase = "escalate" ->
            /\ rc.status = "NA" /\ rc.escalation_class # "NA"
            /\ rc.escalation_reason # "NA" /\ rc.escalation_to # "NA"
         [] OTHER -> FALSE
    /\ rc.retry_requested => rc.attempt >= 1

\* C12: every stored receipt satisfies the I2 rules of its phase and I3, and
\* an authorised Append of a receipt that violates them answers 400
\* (validation_failed) and stores nothing.
C12_PhaseInvariants ==
    [][/\ \A i \in 1..Len(ledger') : PhaseRules(ledger'[i])
       /\ \A k \in ApiKeys, rc \in PhaseReceipts :
             (AppendReceipt(k, rc) /\ ~PhaseRules(rc)) =>
                 resp'.code = 400 /\ ledger' = ledger
      ]_vars

\* C13: every stored receipt of phase escalate has recipient_ai equal to
\* escalation_to, and in every state the ledger reaches an authorised Append of
\* an escalate receipt whose recipient_ai differs from escalation_to answers
\* 400 (validation_failed) and stores nothing.
C13_RoutingInvariant ==
    /\ \A i \in 1..Len(ledger) :
          ledger[i].phase = "escalate" => ledger[i].recipient_ai = ledger[i].escalation_to
    /\ \A k \in ApiKeys, rc \in PhaseReceipts :
          (rc.phase = "escalate" /\ rc.recipient_ai # rc.escalation_to) =>
              /\ create_receipt_status(ledger, k, rc) = 400
              /\ create_receipt_store(ledger, k, rc) = ledger

\* An escalate receipt is stored and the last Append was refused.
C13_Witness ==
    /\ \E i \in 1..Len(ledger) :
          ledger[i].phase = "escalate" /\ ledger[i].escalation_to = "delegate"
    /\ resp.op = "append" /\ resp.code = 400

\* Row r is among the rows of an answer.
Returned(r, rows) == \E j \in 1..Len(rows) : rows[j] = r

\* C14: archived_at, once set, stays set, so that an archived receipt is in no
\* later Inbox answer: every Inbox answer holds only rows that are not
\* archived; a Timeline answer still holds every row of the caller's task,
\* archived or not, and a Chain answer still holds its root; Archive answers
\* 200 exactly when it sets archived_at on a row where it was null, and
\* otherwise (archived already, or unknown to the caller's tenant) answers 404
\* and changes nothing.
C14_ArchiveHidesFromInbox ==
    [][/\ Len(ledger') >= Len(ledger)
       /\ \A i \in 1..Len(ledger) :
             /\ ledger[i].archived_at => ledger'[i].archived_at
             /\ [ledger'[i] EXCEPT !.archived_at = FALSE]
                  = [ledger[i] EXCEPT !.archived_at = FALSE]
       /\ (resp'.op = "inbox" /\ resp'.code = 200) =>
             \A i \in 1..Len(ledger') :
                 ledger'[i].archived_at =>
                     /\ ~Returned(ledger'[i], resp'.rows)
                     /\ ~Returned([ledger'[i] EXCEPT !.archived_at = FALSE], resp'.rows)
       /\ (resp'.op = "timeline" /\ resp'.code = 200) =>
             \A i \in 1..Len(ledger') :
                 (ledger'[i].tenant_id = resp'.proc /\ ledger'[i].task_id = 1) =>
                     Returned(ledger'[i], resp'.rows)
       /\ (resp'.op = "chain" /\ resp'.code = 200) =>
             \A i \in 1..Len(ledger') :
                 (ledger'[i].tenant_id = resp'.proc
                    /\ ledger'[i].receipt_id = resp'.receipt_id) =>
                     Returned(ledger'[i], resp'.rows)
       /\ (resp'.op = "archive" /\ resp'.code # 401) =>
             LET Target(led, i) == /\ led[i].tenant_id = resp'.proc
                                   /\ led[i].receipt_id = resp'.receipt_id
                                   /\ ~led[i].archived_at
             IN  IF \E i \in 1..Len(ledger) : Target(ledger, i)
                 THEN /\ resp'.code = 200
                      /\ \A i \in 1..Len(ledger) :
                            ledger'[i].archived_at =
                                (ledger[i].archived_at \/ Target(ledger, i))
                 ELSE resp'.code = 404 /\ ledger' = ledger
      ]_vars

\* An Inbox answer that returns a receipt while another accepted receipt of
\* the caller's tenant is archived.
C14_Witness ==
    /\ resp.op = "inbox" /\ resp.code = 200
    /\ \E i \in 1..Len(ledger) :
          /\ ledger[i].archived_at /\ ledger[i].phase = "accepted"
          /\ ledger[i].tenant_id = resp.proc
    /\ \E i \in 1..Len(ledger) :
          /\ ~ledger[i].archived_at /\ ledger[i].phase = "accepted"
          /\ Returned(ledger[i], resp.rows)

\* The position of the stored receipt of row i's tenant that row i names as
\* its cause, 0 if there is none.
CauseOf(led, i) ==
    IF \E j \in 1..Len(led) : /\ led[j].tenant_id = led[i].tenant_id
                               /\ led[j].receipt_id = led[i].caused_by_receipt_id
    THEN CHOOSE j \in 1..Len(led) : /\ led[j].tenant_id = led[i].tenant_id
                                    /\ led[j].receipt_id = led[i].caused_by_receipt_id
    ELSE 0

\* The position reached from row i after n steps along caused_by_receipt_id.
RECURSIVE CauseIter(_, _, _)
CauseIter(led, i, n) ==
    IF n = 0 \/ i = 0 THEN i ELSE CauseIter(led, CauseOf(led, i), n - 1)

\* Row i is row root or its caused_by chain leads to row root.
EndsAt(led, i, root) == \E n \in 0..Len(led) : CauseIter(led, i, n) = root

\* The rows whose chain ends at row root, each once, in stored_at order.
ForwardClosure(led, root) ==
    LET idx == SelectSeq([j \in 1..Len(led) |-> j], LAMBDA j : EndsAt(led, j, root))
    IN  [n \in 1..Len(idx) |-> led[idx[n]]]

C17_ChainTerminates ==
    /\ \A i \in 1..Len(ledger) : CauseOf(ledger, i) < i
    /\ \A i \in 1..Len(ledger), n \in 1..Len(ledger) : CauseIter(ledger, i, n) # i
    /\ resp.op = "chain" => resp.code # 0

\* Task t comes before task u in the order of the queue: higher priority
\* first, then earlier created_at, then task_id.
QueueBefore(t, u) ==
    \/ tasks[t].priority > tasks[u].priority
    \/ /\ tasks[t].priority = tasks[u].priority
       /\ tasks[t].created_at < tasks[u].created_at
    \/ /\ tasks[t].priority = tasks[u].priority
       /\ tasks[t].created_at = tasks[u].created_at
       /\ t <= u

\* C18: the row a Lease selects is, among the caller's queued rows that no
\* other request holds, the first by priority (highest first), then by
\* created_at (earliest first), then by task_id, so that the same queue
\* contents always yield the same task.
C18_LeaseOrdering ==
    [][\A s \in Sessions :
          (sess[s].pc = "idle" /\ sess'[s].pc = "lease_update") =>
              \A u \in TaskIds :
                  (/\ tasks[u].tenant_id = sess'[s].tenant_id
                   /\ tasks[u].status = "queued"
                   /\ lock[u] = NoLock) =>
                      QueueBefore(sess'[s].rows[1].task_id, u)
      ]_vars

\* The queued rows of a tenant that no request in flight holds.
AvailableRows(tenant) ==
    {t \in TaskIds : /\ tasks[t].tenant_id = tenant /\ tasks[t].status = "queued"
                     /\ lock[t] = NoLock}

\* C19: no more Lease calls succeed than there are tasks: every lease issued
\* is on a row of its own and every Lease in flight holds a queued row of its
\* own; and a Lease answers 204 exactly when its tenant has no queued row
\* that is free, and then changes no task row and takes no lock.
C19_NoWorkOutcome ==
    [][/\ next_lease' - 1 = Cardinality({t \in 1..Len(tasks') : tasks'[t].status = "leased"})
       /\ \A s1, s2 \in Sessions :
             (sess'[s1].pc = "lease_update" /\ sess'[s2].pc = "lease_update" /\ s1 # s2)
                 => sess'[s1].rows[1].task_id # sess'[s2].rows[1].task_id
       /\ \A s \in Sessions :
             sess'[s].pc = "lease_update" =>
                 tasks'[sess'[s].rows[1].task_id].status = "queued"
       /\ \A s \in Sessions, k \in ApiKeys, w \in Workers :
             LeaseSelect(s, k, w) =>
                 /\ (AvailableRows(get_tenant_from_api_key(k)) = {})
                       <=> (resp'.op = "lease" /\ resp'.code = 204)
                 /\ AvailableRows(get_tenant_from_api_key(k)) = {} =>
                       tasks' = tasks /\ lock' = lock
      ]_vars

\* A Lease answered 204 while every tenant has a task and every task is
\* leased or held by a Lease in flight.
C19_Witness ==
    /\ resp.op = "lease" /\ resp.code = 204
    /\ \A k \in ApiKeys :
          \E t \in TaskIds : tasks[t].tenant_id = get_tenant_from_api_key(k)
    /\ \A t \in TaskIds : tasks[t].status = "leased" \/ lock[t] # NoLock

\* Task row t was created with the arguments that the Create request which
\* read row r was sent with: the same tenant, summary, priority and recipient.
SameCreateArguments(t, r) ==
    /\ tasks[t].tenant_id = r.tenant_id
    /\ tasks[t].task_summary = r.task_summary
    /\ tasks[t].recipient_ai = r.recipient_ai
    /\ tasks[t].priority = tasks'[r.task_id].priority

\* C20: a Create repeated with the arguments of an earlier Create leaves the
\* tasks table as the earlier call left it: it produces no second task.
C20_RetryIsSafe ==
    [][\A s \in Sessions :
          (sess[s].pc = "idle" /\ sess'[s].pc = "create_emit"
             /\ \E t \in TaskIds : SameCreateArguments(t, sess'[s].rows[1]))
          => tasks' = tasks
      ]_vars

\* The rows of one tenant, in table order.
OnlyTenant(led, tenant) == SelectSeq(led, LAMBDA r : r.tenant_id = tenant)

\* The tenant a step is served as: the tenant of the ledger request it
\* answers, or of the handler of the coordinator that takes it (NoTenant for a
\* handler that starts and answers in one step, and for the clock).
Caller ==
    IF resp'.op \in {"append", "archive", "inbox", "timeline", "chain", "get"}
          /\ resp'.proc # "s1"
    THEN resp'.proc
    ELSE IF sess["s1"].pc # "idle" THEN sess["s1"].tenant_id
    ELSE sess'["s1"].tenant_id

\* No row of another tenant than the caller's is changed, added, locked or
\* returned by the step.
TouchesOnlyCaller ==
    /\ Len(tasks') >= Len(tasks) /\ Len(ledger') >= Len(ledger)
    /\ (tasks' # tasks \/ lock' # lock) =>
          \A t \in 1..Len(tasks') :
              (t > Len(tasks) \/ tasks'[t] # tasks[t] \/ lock'[t] # lock[t])
                  => tasks'[t].tenant_id = Caller
    /\ ledger' # ledger =>
          \A i \in 1..Len(ledger') :
              (i > Len(ledger) \/ ledger'[i] # ledger[i]) => ledger'[i].tenant_id = Caller
    /\ (resp'.op # "get" /\ resp'.rows # <<>>) =>
          \A j \in 1..Len(resp'.rows) : resp'.rows[j].tenant_id = Caller
    /\ (resp'.op # "get" /\ resp'.task_id # NULL) =>
          tasks'[resp'.task_id].tenant_id = Caller
    /\ (resp'.op = "get" /\ resp'.proc = "s1" /\ resp'.code = 200) =>
          \A k \in TenantKeys, t \in 1..MaxTasks :
              GetTask("s1", k, t) =>
                  \A j \in 1..Len(resp'.rows) :
                      resp'.rows[j].tenant_id = get_tenant_from_api_key(k)

\* What the ledger answers a tenant, and what it does to the tenant's rows,
\* is the same with and without the rows of the other tenants.
LedgerIgnoresOthers ==
    \A k \in TenantKeys :
        LET A == get_tenant_from_api_key(k)
            mine == OnlyTenant(ledger, A)
        IN  /\ \A rc \in TenantReceipts :
                  /\ create_receipt_status(ledger, k, rc) = create_receipt_status(mine, k, rc)
                  /\ OnlyTenant(create_receipt_store(ledger, k, rc), A)
                       = create_receipt_store(mine, k, rc)
            /\ \A r \in {1, MaxReceipts + 1} :
                  /\ get_receipt_chain(ledger, A, r) = get_receipt_chain(mine, A, r)
                  /\ OnlyTenant(archive_update(ledger, A, r), A) = archive_update(mine, A, r)
            /\ \A a \in Recipients, n \in InboxLimits :
                  get_inbox(ledger, A, a, n) = get_inbox(mine, A, a, n)
            /\ \A t \in 1..MaxTasks, asc \in BOOLEAN :
                  get_task_timeline(ledger, A, t, asc) = get_task_timeline(mine, A, t, asc)

\* What the coordinator answers a tenant depends on that tenant's rows only:
\* Lease answers 204 exactly when the tenant has no free queued row, and
\* Heartbeat, Complete and Fail answer 404 exactly when the tenant has no
\* leased row with the lease and worker named.
CoordinatorIgnoresOthers ==
    (sess["s1"].pc = "idle"
       /\ \/ resp'.op \in {"lease", "heartbeat", "complete", "fail"}
          \/ sess'["s1"].pc \in {"lease_update", "heartbeat_update", "complete_update",
                                 "fail_update"}) =>
    \A k \in TenantKeys :
        LET A == get_tenant_from_api_key(k) IN
        /\ LeaseSelect("s1", k, "w1") =>
              ((resp'.op = "lease" /\ resp'.code = 204) <=> AvailableRows(A) = {})
        /\ \A l \in Issued, b \in BOOLEAN :
              (\/ HeartbeatSelect("s1", k, l, "w1")
               \/ CompleteSelect("s1", k, l, "w1")
               \/ FailSelect("s1", k, l, "w1", b)) =>
                  (resp'.code = 404 <=>
                      ~\E t \in TaskIds : /\ tasks[t].tenant_id = A
                                          /\ tasks[t].lease_id = l
                                          /\ tasks[t].worker_id = "w1"
                                          /\ tasks[t].status = "leased")

\* C15: a request served as tenant A changes, locks and returns only rows
\* whose tenant_id is A, and its answer and its effect on A's rows are the
\* same whatever rows the other tenants hold.
C15_TenantIsolation ==
    /\ []LedgerIgnoresOthers
    /\ [][TouchesOnlyCaller /\ CoordinatorIgnoresOthers]_vars

\* Chain answered a tenant with its rows while another tenant holds a receipt
\* that names the same root as its cause.
C15_Witness ==
    /\ resp.op = "chain" /\ resp.code = 200 /\ Len(resp.rows) >= 1
    /\ \E i \in 1..Len(ledger) :
          /\ ledger[i].tenant_id # resp.proc
          /\ ledger[i].caused_by_receipt_id = resp.receipt_id
    /\ \E t, u \in TaskIds : tasks[t].tenant_id # tasks[u].tenant_id

\* C21: a stored receipt never changes except that Archive sets its
\* archived_at once; a duplicate Append and every read leave the table as it
\* was; no receipt is ever deleted.
C21_ReceiptsImmutable ==
    [][/\ Len(ledger') >= Len(ledger)
       /\ \A i \in 1..Len(ledger) :
            /\ [ledger'[i] EXCEPT !.archived_at = ledger[i].archived_at] = ledger[i]
            /\ ledger'[i].archived_at # ledger[i].archived_at =>
                  /\ ~ledger[i].archived_at
                  /\ resp'.op = "archive" /\ resp'.code = 200
                  /\ ledger[i].tenant_id = resp'.proc
                  /\ ledger[i].receipt_id = resp'.receipt_id
       /\ (resp'.op = "append" /\ resp'.code # 201) => ledger' = ledger
       /\ (resp'.op = "archive" /\ resp'.code # 200) => ledger' = ledger
       /\ resp'.op \in {"inbox", "timeline", "chain", "get", "bootstrap"} =>
             ledger' = ledger]_vars

\* An Append re-sent the id of a stored, archived receipt with another body
\* and was answered 409.
C21_Witness ==
    /\ resp.op = "append" /\ resp.code = 409
    /\ \E i \in 1..Len(ledger) :
          /\ ledger[i].tenant_id = resp.proc
          /\ ledger[i].receipt_id = resp.receipt_id
          /\ ledger[i].archived_at
          /\ ledger[i].caused_by_receipt_id = NULL
    /\ \E i \in 1..Len(ledger) : ledger[i].caused_by_receipt_id = 1

\* The rows of a tenant for one task in the order their inserts committed.
CommitOrder(tenant, task_id) ==
    LET Hit(r) == r.tenant_id = tenant /\ r.task_id = task_id
    IN  SelectSeq(ledger, Hit)

\* C22: of two receipts of one tenant the one whose insert committed first
\* has no later stored_at, and Timeline ordered by stored_at lists a task's
\* receipts in the order they were committed, also when Appends run
\* concurrently.
C22_StoredInCommitOrder ==
    /\ \A i, j \in 1..Len(ledger) :
          (i < j /\ ledger[i].tenant_id = ledger[j].tenant_id)
              => ledger[i].stored_at <= ledger[j].stored_at
    /\ \A k \in ApiKeys :
          timeline_by_stored_at(ledger, get_tenant_from_api_key(k), 1)
              = CommitOrder(get_tenant_from_api_key(k), 1)

\* C23: a reaper pass ends with every one of its rows changed or, when it is
\* cancelled, with none changed; no change of a pass shows before its end; a
\* cancelled reaper has terminated: it takes no further step.
C23_CancelCommitsNothingPartial ==
    [][/\ (sess[Reaper].pc = "reclaim" /\ sess'[Reaper].pc = "idle") =>
             \A k \in 1..Len(sess[Reaper].rows) :
                 tasks'[sess[Reaper].rows[k].task_id].status \in {"queued", "expired"}
       /\ (sess[Reaper].pc # "cancelled" /\ sess'[Reaper].pc = "cancelled") =>
             tasks' = tasks
       /\ (sess[Reaper].pc = "reclaim" /\ sess'[Reaper].pc = "reclaim"
             /\ tasks' # tasks) => sess'["s1"] # sess["s1"]
       /\ sess[Reaper].pc = "cancelled" =>
             /\ sess'[Reaper] = sess[Reaper]
             /\ \A t \in TaskIds : lock[t] # Reaper]_vars

\* The reaper was cancelled in a pass over two expired leases after the
\* escalate receipt of one reached the ledger: both rows are still leased.
C23_Witness ==
    /\ sess[Reaper].pc = "cancelled"
    /\ \A t \in TaskIds : tasks[t].status = "leased" /\ tasks[t].lease_expires_at < now
    /\ \E i \in 1..Len(ledger) : ledger[i].phase = "escalate"

\* A step in which fail_task of session s1, having found the lease, goes its
\* way without a retry.
FailFinalStep ==
    /\ sess["s1"].pc = "fail_update"
    /\ ~can_retry(sess["s1"].retryable, sess["s1"].rows[1])
    /\ sess'["s1"].pc = "idle"

\* The escalate receipts stored for a task.
EscalatesOf(led, tenant, task_id) ==
    {i \in 1..Len(led) : /\ led[i].tenant_id = tenant /\ led[i].task_id = task_id
                         /\ led[i].phase = "escalate"}

\* C24: Fail without a retry on a validly held lease moves the task to failed,
\* sets completed_at, emits one escalate receipt for the task and answers
\* 'failed' with retry_scheduled false; attempt is not incremented.
C24_FailWithoutRetry ==
    [][FailFinalStep =>
        LET row == sess["s1"].rows[1] IN
        /\ tasks'[row.task_id].status = "failed"
        /\ tasks'[row.task_id].completed_at
        /\ tasks'[row.task_id].attempt = tasks[row.task_id].attempt
        /\ resp'.op = "fail_final" /\ resp'.code = 200
        /\ Cardinality(EscalatesOf(ledger', row.tenant_id, row.task_id)
                         \cup {i \in 1..Len(retry_queue') :
                                 /\ retry_queue'[i].receipt_data.task_id = row.task_id
                                 /\ retry_queue'[i].receipt_data.phase = "escalate"})
              = 1]_vars

\* C25: Fail with can_retry on a validly held lease increments attempt by
\* exactly one, nulls the lease fields, returns the task to queued, emits no
\* receipt and answers retry_scheduled with next_attempt = old attempt + 1;
\* the requeued task has attempt < max_attempts, so with max_attempts = 3
\* failure requeues a task at most twice.
C25_FailWithRetry ==
    [][\A s \in Sessions :
        (/\ sess[s].pc = "fail_update"
         /\ can_retry(sess[s].retryable, sess[s].rows[1])
         /\ sess'[s].pc = "idle") =>
            LET row == sess[s].rows[1]
                t == row.task_id
                held == /\ tasks[t].lease_id = sess[s].lease_id
                        /\ tasks[t].worker_id = sess[s].worker_id
                        /\ tasks[t].status = "leased"
            IN  /\ resp'.op = "fail_retry" /\ resp'.code = 200
                /\ ledger' = ledger /\ retry_queue' = retry_queue
                /\ next_rid' = next_rid
                /\ \A u \in TaskIds \ {t} : tasks'[u] = tasks[u]
                /\ held =>
                     /\ tasks'[t] = [tasks[t] EXCEPT !.status = "queued",
                                        !.lease_id = NULL, !.worker_id = NoWorker,
                                        !.lease_expires_at = NULL,
                                        !.attempt = tasks[t].attempt + 1]
                     /\ tasks'[t].attempt = fail_next_attempt(row)
                     /\ tasks'[t].attempt < max_attempts_default]_vars

\* A second failure has just requeued a task: its attempt is 2.
C25_Witness ==
    /\ resp.op = "fail_retry" /\ resp.code = 200
    /\ resp.task_id \in TaskIds
    /\ tasks[resp.task_id].status = "queued"
    /\ tasks[resp.task_id].attempt = max_attempts_default - 1
    /\ tasks[resp.task_id].lease_id = NULL

\* What the coordinator promises of an escalate receipt rc.
EscalateShape(rc) ==
    /\ rc.task_id \in TaskIds
    /\ rc.escalation_class = "policy"
    /\ rc.escalation_to = "delegate"
    /\ rc.recipient_ai = "delegate"
    /\ rc.recipient_ai = rc.escalation_to
    /\ validate_phase_constraints(rc)

\* C26: every escalate receipt the coordinator emits (Fail exhaustion, reaper,
\* admin reclaim) carries the task's task_id, escalation_class 'policy',
\* escalation_to 'delegate' and recipient_ai 'delegate' whatever the task's
\* recipient_ai, and passes the ledger's routing check: those about to be
\* emitted, those stored and those queued.
C26_EscalateRouting ==
    /\ \A p \in Procs : \A k \in 1..Len(sess[p].rows) :
          sess[p].pc \in {"fail_update", "reclaim"} =>
              /\ EscalateShape(escalate_receipt(next_rid, sess[p].rows[k]))
              /\ escalate_receipt(next_rid, sess[p].rows[k]).task_id
                    = sess[p].rows[k].task_id
    /\ \A i \in 1..Len(ledger) :
          ledger[i].phase = "escalate" => EscalateShape(ledger[i])
    /\ \A i \in 1..Len(retry_queue) :
          retry_queue[i].receipt_data.phase = "escalate"
              => EscalateShape(retry_queue[i].receipt_data)

\* The ledger holds the escalate receipt of a task that failed for good and
\* that of a task whose lease expired, both tasks addressed to a worker.
C26_Witness ==
    \E i, j \in 1..Len(ledger) :
        /\ ledger[i].phase = "escalate" /\ ledger[j].phase = "escalate"
        /\ tasks[ledger[i].task_id].status = "failed"
        /\ tasks[ledger[j].task_id].status = "expired"
        /\ tasks[ledger[i].task_id].recipient_ai # "delegate"
        /\ tasks[ledger[j].task_id].recipient_ai # "delegate"

\* The statuses the attempts i.. of the foreground loop see when all of them
\* are made.
RECURSIVE AttemptCodes(_, _, _, _, _)
AttemptCodes(led, nets, tenant, rc, i) ==
    IF i > max_retries THEN <<>>
    ELSE LET o == post_outcome(led, nets[i], tenant, rc)
         IN  <<o.code>> \o AttemptCodes(o.ledger, nets, tenant, rc, i + 1)

\* The first attempt whose status ends the loop, max_retries + 1 if none does.
FirstFinal(codes) ==
    IF \E i \in 1..Len(codes) : codes[i] \in {201, 409, 400, 422}
    THEN CHOOSE i \in 1..Len(codes) :
            /\ codes[i] \in {201, 409, 400, 422}
            /\ \A j \in 1..(i - 1) : codes[j] \notin {201, 409, 400, 422}
    ELSE Len(codes) + 1

\* C27: Emit's foreground loop makes at most 3 attempts; a 201 or a 409 ends
\* it with success; a 400/422 ends it at once with emission_failed and nothing
\* enqueued; every other failure is retried, and only after the third is the
\* receipt pushed onto the overflow queue with retry_count 0 and
\* emission_failed returned.
C27_ForegroundLoop ==
    \A nets \in [1..max_retries -> NetModes], k \in ApiKeys, m \in Summaries,
       rid \in 1..MaxReceipts :
        LET tenant == get_tenant_from_api_key(k)
            rc == accepted_receipt(rid, [task_id |-> 1, recipient_ai |-> "worker.alice",
                                         task_summary |-> m])
            e == emit_loop(ledger, retry_queue, nets, tenant, rc, 0)
            codes == AttemptCodes(ledger, nets, tenant, rc, 1)
            n == FirstFinal(codes)
        IN  /\ e.posts <= 3
            /\ e.posts = Min(n, 3)
            /\ (n <= 3 /\ codes[n] \in {201, 409}) =>
                  e.ok /\ e.queue = retry_queue
            /\ (n <= 3 /\ codes[n] \in {400, 422}) =>
                  ~e.ok /\ e.queue = retry_queue
            /\ n > 3 =>
                  /\ ~e.ok
                  /\ Len(e.queue) = Min(Len(retry_queue) + 1, QueueCap)
                  /\ e.queue[Len(e.queue)] =
                        [tenant_id |-> tenant, receipt_data |-> rc, retry_count |-> 0]

\* Create answered 503 at once for a task whose accepted receipt the ledger
\* rejects: nothing was stored and nothing enqueued.
C27_Witness ==
    /\ resp.op = "create" /\ resp.code = 503
    /\ tasks[resp.task_id].task_summary = "TBD"
    /\ tasks[resp.task_id].tenant_id = "alice"
    /\ retry_queue = <<>>
    /\ \A i \in 1..Len(ledger) : ledger[i].task_summary # "TBD"

\* A step in which a handler's Emit pushed its receipt onto the overflow queue.
PushStep == next_rid' # next_rid /\ retry_queue' # retry_queue

\* Of the first n entries of q, those a drain cycle over net keeps, oldest
\* first, each with its retry_count raised, given the ledger led they meet.
RECURSIVE Requeued(_, _, _, _)
Requeued(led, q, net, n) ==
    IF n = 0 \/ q = <<>> THEN <<>>
    ELSE LET item == [Head(q) EXCEPT !.retry_count = @ + 1]
             o == post_outcome(led, net, item.tenant_id, item.receipt_data)
         IN  (IF o.code # 201 /\ item.retry_count < DrainMaxRetries
              THEN <<item>> ELSE <<>>) \o Requeued(o.ledger, Tail(q), net, n - 1)

\* The receipt ids of the rows of led after position n.
StoredAfter(led, n) == [i \in 1..(Len(led) - n) |-> led[n + i].receipt_id]

\* The receipt ids of the entries of q, in order.
QueuedIds(q) == [i \in 1..Len(q) |-> q[i].receipt_data.receipt_id]

\* sq without the members not in S, order kept.
Restrict(sq, S) == LET In(x) == x \in S IN SelectSeq(sq, In)

\* The overflow queue holds no more than its capacity.
QueueBounded == Len(retry_queue) <= QueueCap

\* C28: the overflow queue never holds more than its capacity; a push onto a
\* full queue drops the oldest entry and keeps the new one at the tail; the
\* drain takes entries oldest first: what it delivers reaches the ledger in
\* queue order and what it keeps goes behind the entries it did not take.
C28_QueueBoundedFifo ==
    /\ []QueueBounded
    /\ [][/\ PushStep =>
               /\ retry_queue'[Len(retry_queue')].receipt_data.receipt_id = next_rid
               /\ retry_queue'[Len(retry_queue')].retry_count = 0
               /\ SubSeq(retry_queue', 1, Len(retry_queue') - 1) =
                     IF Len(retry_queue) = QueueCap THEN Tail(retry_queue)
                     ELSE retry_queue
          /\ DrainStep =>
               LET n == Min(DrainBatch, Len(retry_queue))
                   new == StoredAfter(ledger', Len(ledger))
               IN  /\ new = Restrict(QueuedIds(SubSeq(retry_queue, 1, n)),
                                     {new[i] : i \in 1..Len(new)})
                   /\ retry_queue' =
                         SubSeq(retry_queue, n + 1, Len(retry_queue))
                         \o Requeued(ledger, retry_queue, Net(ledger_up), n)]_vars

\* The full queue holds an entry the drain has tried behind which a newer
\* receipt was pushed, and an older receipt was dropped from its head.
C28_Witness ==
    /\ Len(retry_queue) = QueueCap
    /\ retry_queue[1].retry_count >= 1
    /\ retry_queue[QueueCap].retry_count = 0
    /\ \E rid \in 1..(next_rid - 1) :
          /\ rid < retry_queue[1].receipt_data.receipt_id
          /\ ~InQueue(retry_queue, rid) /\ ~InLedger(ledger, rid)
          /\ rid \notin error_log

\* Every queued receipt has been tried by the drain fewer times than the limit.
QueuedBelowLimit ==
    \A i \in 1..Len(retry_queue) : retry_queue[i].retry_count < DrainMaxRetries

\* A drain cycle takes the first n = min(DrainBatch, length) entries and leaves
\* the others in place, now at the head; behind them it re-queues, each with
\* its retry_count raised by one and still below the limit, entries it took;
\* an entry it took that is not re-queued was stored by the ledger or had its
\* last try, and then its id is in the error log; nothing else is logged.
DrainCycleShape ==
    DrainStep =>
        LET n == Min(DrainBatch, Len(retry_queue))
            rest == Len(retry_queue) - n
            Taken == {retry_queue[i] : i \in 1..n}
            Back == {retry_queue'[j] : j \in (rest + 1)..Len(retry_queue')}
            Tried(item) == [item EXCEPT !.retry_count = @ + 1]
        IN  /\ Len(retry_queue') >= rest
            /\ Len(retry_queue') <= Len(retry_queue)
            /\ SubSeq(retry_queue', 1, rest) =
                  SubSeq(retry_queue, n + 1, Len(retry_queue))
            /\ \A b \in Back : \E item \in Taken :
                  b = Tried(item) /\ b.retry_count < DrainMaxRetries
            /\ \A item \in Taken :
                  LET id == item.receipt_data.receipt_id
                  IN  \/ Tried(item) \in Back /\ id \notin error_log' \ error_log
                      \/ /\ Tried(item) \notin Back
                         /\ Tried(item).retry_count >= DrainMaxRetries
                         /\ id \in error_log'
                      \/ /\ Tried(item) \notin Back
                         /\ id \notin error_log' \ error_log
                         /\ ~InLedger(ledger, id) /\ InLedger(ledger', id)
            /\ error_log' \ error_log \subseteq
                  {item.receipt_data.receipt_id : item \in Taken}

\* C29: a drain cycle processes at most DrainBatch queued receipts; one whose
\* try fails is re-queued at the tail while its retry_count is below the limit
\* and is otherwise discarded with an error log, so no receipt is tried by the
\* drain more often than the limit; and once nothing new is queued the queue
\* empties after finitely many cycles.
C29_DrainBounded ==
    /\ []QueuedBelowLimit
    /\ [][DrainCycleShape]_vars
    /\ <>[](retry_queue = <<>>)

\* A drain cycle has left an untried receipt at the head of the queue and
\* re-queued the one it tried behind it, after another receipt had its last
\* try and was logged.
C29_Witness ==
    /\ Len(retry_queue) = QueueCap
    /\ retry_queue[1].retry_count = 0
    /\ retry_queue[QueueCap].retry_count >= 1
    /\ error_log # {}

\* The processes that run reclaim passes.
Reclaimers == {"s1", Reaper}

\* Process p's reclaim pass handles the row at its position; the row is on the
\* expiring branch and its escalate receipt has not reached the ledger.
ReclaimEmitFailed(p) ==
    /\ sess[p].pc = "reclaim"
    /\ sess[p].i <= Len(sess[p].rows)
    /\ sess'[p] # sess[p]
    /\ ~reclaim_can_retry(sess[p].rows[sess[p].i])
    /\ ~InLedger(ledger', next_rid)

\* Process p's reclaim pass commits.
ReclaimCommits(p) == sess[p].pc = "reclaim" /\ sess'[p].pc # "reclaim"

FirstInOrder(t, S) ==
    /\ t \in S
    /\ \A u \in S : \/ tasks[t].priority > tasks[u].priority
                    \/ /\ tasks[t].priority = tasks[u].priority
                       /\ tasks[t].created_at <= tasks[u].created_at

\* The tenant's queued tasks that no transaction has locked.
Available(tenant) ==
    {t \in TaskIds : /\ tasks[t].tenant_id = tenant
                     /\ tasks[t].status = "queued"
                     /\ lock[t] = NoLock}

\* Handler s takes a lease request with preferred_kinds through its first
\* query.
FirstPass(s) ==
    /\ sess[s].pc = "idle"
    /\ sess'[s].pc \in {"lease_update", "lease_fallback"}
    /\ "kinds" \in DOMAIN sess'[s]

\* C31: a lease request with non-empty preferred_kinds first selects among the
\* tenant's available queued tasks whose task_type is preferred, first by
\* priority and then by age, and takes one of them if there is any, whatever
\* the priority of the other tasks; its unrestricted second selection runs only
\* when the first found no row, and then takes the first available task of any
\* kind or answers 204.
C31_PreferredKindsFirst ==
    [][\A s \in Sessions :
          /\ FirstPass(s) =>
                LET Pref == {t \in Available(sess'[s].tenant_id) :
                                tasks[t].task_type \in sess'[s].kinds}
                IN  /\ sess'[s].kinds # {}
                    /\ IF Pref # {}
                       THEN /\ sess'[s].pc = "lease_update"
                            /\ FirstInOrder(sess'[s].rows[1].task_id, Pref)
                            /\ lock'[sess'[s].rows[1].task_id] = s
                       ELSE /\ sess'[s].pc = "lease_fallback"
                            /\ lock' = lock
          /\ (sess[s].pc = "lease_fallback" /\ sess'[s] # sess[s]) =>
                LET All == Available(sess[s].tenant_id)
                IN  IF All # {}
                    THEN /\ sess'[s].pc = "lease_update"
                         /\ FirstInOrder(sess'[s].rows[1].task_id, All)
                         /\ lock'[sess'[s].rows[1].task_id] = s
                    ELSE /\ sess'[s].pc = "idle"
                         /\ resp'.op = "lease" /\ resp'.code = 204
          /\ (sess[s].pc = "lease_update" /\ sess'[s].pc = "idle") =>
                /\ resp'.code = 200
                /\ resp'.task_id = sess[s].rows[1].task_id
                /\ tasks'[resp'.task_id].status = "leased"]_vars

\* A request with preferred_kinds has selected a task of a preferred kind
\* while a task of another kind with a higher priority was available.
C31_Witness ==
    \E s \in Sessions :
        /\ sess[s].pc = "lease_update"
        /\ "kinds" \in DOMAIN sess[s]
        /\ tasks[sess[s].rows[1].task_id].task_type \in sess[s].kinds
        /\ \E u \in Available(sess[s].tenant_id) :
              /\ tasks[u].task_type \notin sess[s].kinds
              /\ tasks[u].priority > tasks[sess[s].rows[1].task_id].priority

\* Some handler is at the given position and leaves it in this step.
Leaves(pc) == \E p \in Procs : sess[p].pc = pc /\ sess'[p].pc # pc

\* C32: every change of a task's status is an edge of the state machine, made
\* by the operation that owns the edge: Create yields queued; queued to leased
\* only by Lease; leased to queued only by Fail with retry or a reclaim pass;
\* leased to completed only by Complete; leased to failed only by Fail; leased
\* to expired only by a reclaim pass.
C32_StatusEdges ==
    [][/\ \A t \in (1..Len(tasks')) \ TaskIds : tasks'[t].status = "queued"
       /\ \A t \in TaskIds :
             LET old == tasks[t].status
                 new == tasks'[t].status
             IN  new # old =>
                   \/ old = "queued" /\ new = "leased" /\ Leaves("lease_update")
                   \/ /\ old = "leased" /\ new = "queued"
                      /\ Leaves("fail_update") \/ Leaves("reclaim")
                   \/ old = "leased" /\ new = "completed" /\ Leaves("complete_update")
                   \/ old = "leased" /\ new = "failed" /\ Leaves("fail_update")
                   \/ old = "leased" /\ new = "expired" /\ Leaves("reclaim")]_vars

\* The positions of the queue_execution steps among steps, in order.
QueuePositions(steps) ==
    SelectSeq([k \in 1..Len(steps) |-> k],
              LAMBDA k : steps[k].step_type = "queue_execution")

\* Handler s is in the loop of execute_plan.
Executing(s) == sess[s].pc = "execute"

\* C33: Execute with dry_run false submits to the coordinator's Create exactly
\* the plan's steps of type queue_execution, each once and in order; a failed
\* submission leaves the loop running with the next step; and after the last
\* step the plan's status becomes executing and the answer is 'started' with
\* the number of submissions that succeeded, whatever that number is.  With
\* dry_run true nothing is submitted and the plan is left as it was.
C33_ExecuteSubmitsQueueSteps ==
    [][\A s \in Sessions :
          /\ (Executing(s) /\ Executing(s)' /\ sess'[s] # sess[s]) =>
                LET st == sess[s]
                    step == st.rows[st.i]
                IN  /\ sess'[s].i = st.i + 1
                    /\ sess'[s].rows = st.rows
                    /\ sess'[s].posted =
                          IF step.step_type = "queue_execution"
                          THEN Append(st.posted, st.i) ELSE st.posted
                    /\ step.step_type # "queue_execution" =>
                          tasks' = tasks /\ ledger' = ledger /\ retry_queue' = retry_queue
                    /\ Len(tasks') > Len(tasks) =>
                          /\ step.step_type = "queue_execution"
                          /\ tasks'[Len(tasks')].task_summary = step.description
                          /\ tasks'[Len(tasks')].status = "queued"
                    /\ plans' = plans
          /\ (Executing(s) /\ ~Executing(s)') =>
                LET st == sess[s] IN
                /\ st.i = Len(st.rows) + 1
                /\ st.posted = QueuePositions(plans[st.plan_id].steps)
                /\ plans'[st.plan_id].status = "executing"
                /\ resp'.op = "execute" /\ resp'.code = 200
                /\ resp'.rows[1].status = "started"
                /\ resp'.rows[1].steps_queued = Len(st.receipt_ids)
                /\ resp'.rows[1].steps_queued <= Len(st.posted)
          /\ (~Executing(s) /\ ~Executing(s)' /\ resp'.op = "execute"
                /\ resp'.proc = s) =>
                /\ plans' = plans /\ tasks' = tasks
                /\ ledger' = ledger /\ retry_queue' = retry_queue]_vars

\* Execute has answered for a plan with two queue_execution steps whose first
\* submission failed without reaching the coordinator: the second step's task
\* was created all the same and the plan is executing.
C33_Witness ==
    /\ resp.op = "execute" /\ resp.code = 200
    /\ resp.rows[1].status = "started"
    /\ resp.rows[1].steps_queued = 1
    /\ \E p \in PlanIds :
          /\ plans[p].status = "executing"
          /\ Len(QueuePositions(plans[p].steps)) = 2
    /\ \E t \in TaskIds : tasks[t].task_summary = "subtask 2"
    /\ \A t \in TaskIds : tasks[t].task_summary # "subtask 1"

\* The tasks an escalate receipt exists for, stored or waiting in the queue.
EscalatedTasks ==
    {ledger[i].task_id : i \in {j \in 1..Len(ledger) : ledger[j].phase = "escalate"}}
      \cup {retry_queue[i].receipt_data.task_id :
              i \in {j \in 1..Len(retry_queue) :
                       retry_queue[j].receipt_data.phase = "escalate"}}

\* C34: the audit never runs ahead of the task table: whenever an escalate
\* receipt of a task is in the ledger or in the overflow queue, the task's row
\* is failed or expired.
C34_AuditNotAhead ==
    \A t \in EscalatedTasks : t \in TaskIds /\ tasks[t].status \in {"failed", "expired"}

\* The tasks a complete receipt exists for, stored or waiting in the queue.
CompleteReceiptTasks ==
    {ledger[i].task_id : i \in {j \in 1..Len(ledger) : ledger[j].phase = "complete"}}
      \cup {retry_queue[i].receipt_data.task_id :
              i \in {j \in 1..Len(retry_queue) :
                       retry_queue[j].receipt_data.phase = "complete"}}

\* C35: once its Complete call has answered, every completed task has its
\* complete receipt in the ledger or in the overflow queue, unless the drain
\* has discarded a receipt with an error log.
C35_CompletedHasReceipt ==
    \A t \in TaskIds :
        (/\ tasks[t].status = "completed"
         /\ \A s \in Sessions : sess[s].pc # "complete_emit"
         /\ error_log = {})
        => t \in CompleteReceiptTasks

\* The ids of the terminal receipts (phase complete or escalate) of task t, in
\* the ledger or in the overflow queue.
TerminalReceipts(t) ==
    {ledger[i].receipt_id :
        i \in {j \in 1..Len(ledger) : /\ ledger[j].task_id = t
                                      /\ ledger[j].phase \in {"complete", "escalate"}}}
      \cup {retry_queue[i].receipt_data.receipt_id :
              i \in {j \in 1..Len(retry_queue) :
                       /\ retry_queue[j].receipt_data.task_id = t
                       /\ retry_queue[j].receipt_data.phase \in {"complete", "escalate"}}}

\* C36: every task has at most one terminal receipt across the ledger and the
\* overflow queue, also when Complete, Fail, the reaper and the admin reclaim
\* run concurrently on one leased row.
C36_OneTerminalReceipt ==
    \A t \in TaskIds : Cardinality(TerminalReceipts(t)) <= 1

\* C37: a reclaim pass changes only rows that are, when its update takes
\* effect, still leased and expired as the pass read them, with the attempt it
\* read: it changes no row that has meanwhile been completed, failed, requeued,
\* extended by a heartbeat or leased again (a new lease follows a requeue, which
\* raises attempt), and two passes never both raise attempt for one expiry.
C37_ReclaimOnlyExpiredLease ==
    [][\A p \in Procs :
          ReclaimCommits(p) =>
             \A k \in 1..Len(sess[p].rows) :
                LET row == sess[p].rows[k]
                    cur == tasks[row.task_id]
                IN  tasks'[row.task_id] # cur =>
                       /\ cur.status = "leased"
                       /\ cur.lease_expires_at < now
                       /\ cur.attempt = row.attempt]_vars

\* C38: Heartbeat and Complete do not compare lease_expires_at with the clock.
\* A call on a lease that has run out, on a row no reclaim pass has changed,
\* is never answered not_found; Heartbeat then sets the expiry of the lease's
\* row to now + LEASE_DURATION_SECONDS and answers 200, and Complete sets the
\* row to completed and answers 200.
C38_ExpiredLeaseStillServed ==
    [][/\ resp'.op \in {"heartbeat", "complete"} => resp'.code = 200
       /\ (sess["s1"].pc = "idle" /\ sess'["s1"].pc \in {"heartbeat_update", "complete_update"})
             => /\ sess'["s1"].lease_id \in RunOut
                /\ tasks[sess'["s1"].rows[1].task_id].lease_id = sess'["s1"].lease_id
       /\ (sess["s1"].pc = "heartbeat_update" /\ sess'["s1"].pc = "idle") =>
             \A t \in TaskIds :
                (tasks[t].tenant_id = sess["s1"].tenant_id
                   /\ tasks[t].lease_id = sess["s1"].lease_id)
                => /\ tasks'[t].lease_expires_at = now + LEASE_DURATION_SECONDS
                   /\ tasks'[t].status = tasks[t].status
       /\ (sess["s1"].pc = "complete_update" /\ sess'["s1"].pc = "complete_emit") =>
             \A t \in TaskIds :
                (tasks[t].tenant_id = sess["s1"].tenant_id
                   /\ tasks[t].lease_id = sess["s1"].lease_id)
                => /\ tasks'[t].status = "completed"
                   /\ tasks'[t].completed_at]_vars

\* After both leases ran out and before any reclaim pass, a Heartbeat has
\* revived one lease and a Complete has just been answered for the other.
C38_Witness ==
    /\ resp.op = "complete" /\ resp.code = 200
    /\ now > 0
    /\ \E t, u \in TaskIds :
          /\ tasks[t].status = "completed"
          /\ tasks[t].lease_expires_at < now
          /\ tasks[t].attempt = 0
          /\ tasks[u].status = "leased"
          /\ tasks[u].lease_expires_at = now + LEASE_DURATION_SECONDS
          /\ tasks[u].attempt = 0
          /\ tasks[u].lease_id < tasks[t].lease_id

\* C39: every receipt the coordinator emits for a task of tenant T, when the
\* ledger answers and the receipt passes the phase rules, is accepted by the
\* ledger and stored under tenant_id T, for every tenant the resolver
\* returns: the key 'dev-key-' + T resolves to T.
C39_EmittedReceiptStored ==
    [][\A s \in Sessions :
          (/\ sess[s].pc = "create_emit" /\ sess'[s].pc = "idle"
           /\ ledger_up
           /\ validate_phase_constraints(accepted_receipt(next_rid, sess[s].rows[1]))) =>
             LET T == sess[s].tenant_id
                 row == sess[s].rows[1]
             IN  /\ get_tenant_from_api_key("dev-key-" \o T) = T
                 /\ resp'.code = 201
                 /\ \E i \in 1..Len(ledger') :
                       /\ ledger'[i].tenant_id = T
                       /\ ledger'[i].task_id = row.task_id
                       /\ ledger'[i].phase = "accepted"]_vars

====
